---- MODULE Spec2Model ----
(***************************************************************************)
(* Model of android-mcp-toolkit: the conversion cache of src/index.js      *)
(* (makeCacheKey, getCached, setCache, the convert handler) and the adb    *)
(* process invoker and tool handlers of the logcat tool module.            *)
(*                                                                         *)
(* JavaScript values that may be null/undefined are modelled as options:   *)
(* <<>> is null/undefined, <<v>> is the value v.  Text is a TLA+ string;   *)
(* text that the code trims or splits is a sequence of chunks (see the     *)
(* process-invoker section).                                               *)
(***************************************************************************)
EXTENDS Integers, Sequences, FiniteSets, TLC

VARIABLES
    conversionCache,   \* index.js:56  the Map, as its entries in insertion order
    nextFresh,         \* number of the next never-seen SVG a cache client will present
    touches,           \* how many non-fresh cache operations the run has made
    lastCall,          \* history: the last cache operation, its argument and its effect
    accessOrder,       \* history: cached keys from least to most recently read or written
    insertRun,         \* history: the keys set so far while the run is only fresh setCache calls
    afterHit,          \* history: the last getCached hit and the fresh keys set since
    call,              \* the adb tool call in flight: its handler's position and locals
    inv,               \* the execFile invocation the handler awaits, and its child process
    children,          \* number of adb child processes that are alive
    lastRun,           \* history: the last settled runAdbCommand, its input and its result
    conv,              \* the convert-svg-to-android-drawable calls: position and locals of each
    outputFile,        \* the files that exist at the output paths: resolved path to bytes
    built,             \* the last call of buildLogcatArgs: its arguments and its result
    keyCalls,          \* the calls of makeCacheKey so far: their arguments and their results
    estimate           \* the last estimate-text-length-difference call: its params and its locals

cacheVars == <<conversionCache, nextFresh, touches, lastCall, accessOrder, insertRun, afterHit>>
adbVars == <<call, inv, children, lastRun>>
convVars == <<conv, outputFile>>
pureVars == <<built, keyCalls, estimate>>
vars == <<conversionCache, nextFresh, touches, lastCall, accessOrder, insertRun, afterHit,
          call, inv, children, lastRun, conv, outputFile, built, keyCalls, estimate>>

(***************************************************************************)
(* Bounds of the model.                                                    *)
(***************************************************************************)
MaxFresh == 34         \* distinct never-seen keys a run may present to the cache
MaxTouches == 1        \* hits, misses, overwrites and re-insertions a run may make
MaxCalls == 2          \* convert calls of a run, all of which may be in flight together
MaxKeyed == 2          \* calls of makeCacheKey that are compared with one another
MaxTextLength == 22    \* UTF-16 code units of a text given to estimate-text-length-difference

(***************************************************************************)
(* Option values.                                                          *)
(***************************************************************************)
None == <<>>
Some(v) == <<v>>
IsSome(o) == o # <<>>
\* JavaScript truthiness of a nullable string: null, undefined and "" are falsy.
Truthy(o) == o # <<>> /\ o[1] # ""

(***************************************************************************)
(* index.js:57                                                             *)
(***************************************************************************)
MAX_CACHE_SIZE == 32

(***************************************************************************)
(* JavaScript strings are sequences of UTF-16 code units.  A code unit     *)
(* that a TLA+ string cannot hold is written by name, [U+hhhh] with four   *)
(* upper-case hexadecimal digits: [U+D800] is the lone surrogate D800.     *)
(***************************************************************************)
HexDigits == {"0", "1", "2", "3", "4", "5", "6", "7", "8", "9", "A", "B", "C", "D", "E", "F"}
CharAt(s, i) == SubSeq(s, i, i)
\* A named code unit starts at position i of s.
IsNamedUnitAt(s, i) ==
    /\ CharAt(s, i) = "["
    /\ i + 7 <= Len(s)
    /\ SubSeq(s, i + 1, i + 2) = "U+"
    /\ CharAt(s, i + 7) = "]"
    /\ \A k \in (i + 3)..(i + 6) : CharAt(s, k) \in HexDigits
\* Position i of s lies in a named code unit, after its first character.
IsInsideUnit(s, i) ==
    /\ CharAt(s, i) \in HexDigits \cup {"U", "+", "]"}
    /\ \E j \in (i - 7)..(i - 1) : j >= 1 /\ IsNamedUnitAt(s, j)
UnitAt(s, i) == IF IsNamedUnitAt(s, i) THEN SubSeq(s, i, i + 7) ELSE CharAt(s, i)
IsHighSurrogate(u) == Len(u) = 8 /\ SubSeq(u, 4, 5) \in {"D8", "D9", "DA", "DB"}
IsLowSurrogate(u) == Len(u) = 8 /\ SubSeq(u, 4, 5) \in {"DC", "DD", "DE", "DF"}
\* The code unit at i is a surrogate without its partner next to it.
IsLoneSurrogateAt(s, i) ==
    LET paired ==
            \/ /\ IsHighSurrogate(UnitAt(s, i))
               /\ i + 8 <= Len(s) /\ IsLowSurrogate(UnitAt(s, i + 8))
            \/ /\ IsLowSurrogate(UnitAt(s, i))
               /\ i - 8 >= 1 /\ IsHighSurrogate(UnitAt(s, i - 8))
    IN (IsHighSurrogate(UnitAt(s, i)) \/ IsLowSurrogate(UnitAt(s, i))) /\ ~paired

\* The concatenation of piece[lo], ..., piece[hi], strings or sequences.
RECURSIVE Concat(_, _, _, _)
Concat(piece, lo, hi, empty) ==
    IF lo > hi THEN empty
    ELSE IF lo = hi THEN piece[lo]
    ELSE LET mid == (lo + hi) \div 2
         IN Concat(piece, lo, mid, empty) \o Concat(piece, mid + 1, hi, empty)

(***************************************************************************)
(* The UTF-8 encoding of a string, which hash.update(string) hashes        *)
(* (index.js:61-62) and fs.writeFile(path, string, 'utf8') writes          *)
(* (index.js:95): a sequence of bytes.  A byte is written as the character *)
(* it encodes when a TLA+ string can hold that character, and by name      *)
(* otherwise, [xHH].  A surrogate pair encodes its code point; a surrogate *)
(* without its partner has no encoding and is replaced by U+FFFD.          *)
(***************************************************************************)
\* The number of a named code unit.
CodeUnit(u) ==
    LET HexValue(d) ==
            CASE d = "0" -> 0 [] d = "1" -> 1 [] d = "2" -> 2 [] d = "3" -> 3
              [] d = "4" -> 4 [] d = "5" -> 5 [] d = "6" -> 6 [] d = "7" -> 7
              [] d = "8" -> 8 [] d = "9" -> 9 [] d = "A" -> 10 [] d = "B" -> 11
              [] d = "C" -> 12 [] d = "D" -> 13 [] d = "E" -> 14 [] d = "F" -> 15
    IN 4096 * HexValue(SubSeq(u, 4, 4)) + 256 * HexValue(SubSeq(u, 5, 5))
       + 16 * HexValue(SubSeq(u, 6, 6)) + HexValue(SubSeq(u, 7, 7))
\* The bytes of a code point that is written by name.
EncodeCodePoint(cp) ==
    LET HexDigit(n) == SubSeq("0123456789ABCDEF", n + 1, n + 1)
        ByteName(n) == "[x" \o HexDigit(n \div 16) \o HexDigit(n % 16) \o "]"
    IN
    IF cp < 128 THEN <<ByteName(cp)>>
    ELSE IF cp < 2048
    THEN <<ByteName(192 + (cp \div 64)), ByteName(128 + (cp % 64))>>
    ELSE IF cp < 65536
    THEN <<ByteName(224 + (cp \div 4096)), ByteName(128 + ((cp \div 64) % 64)),
           ByteName(128 + (cp % 64))>>
    ELSE <<ByteName(240 + (cp \div 262144)), ByteName(128 + ((cp \div 4096) % 64)),
           ByteName(128 + ((cp \div 64) % 64)), ByteName(128 + (cp % 64))>>

\* A text without "[" holds no named code unit: its bytes are its characters.
IsPlain(s) == \A i \in 1..Len(s) : CharAt(s, i) # "["

Utf8(s) ==
    IF IsPlain(s) THEN [i \in 1..Len(s) |-> CharAt(s, i)]
    ELSE
    Concat([i \in 1..Len(s) |->
               IF IsInsideUnit(s, i) THEN <<>>
               ELSE IF ~IsNamedUnitAt(s, i) THEN <<CharAt(s, i)>>
               ELSE IF IsLoneSurrogateAt(s, i) THEN EncodeCodePoint(65533)
               ELSE IF IsHighSurrogate(UnitAt(s, i))
               THEN EncodeCodePoint(65536 + (CodeUnit(UnitAt(s, i)) - 55296) * 1024
                                    + (CodeUnit(UnitAt(s, i + 8)) - 56320))
               ELSE IF IsLowSurrogate(UnitAt(s, i)) THEN <<>>
               ELSE EncodeCodePoint(CodeUnit(UnitAt(s, i)))],
           1, Len(s), <<>>)

\* The UTF-8 encoding of a string as one string, byte after byte: a plain
\* text is written as it is; a "[" that is a byte of its own is doubled,
\* which keeps it apart from the "[" of a byte's name.
Utf8String(s) ==
    LET bytes == Utf8(s) IN
    IF IsPlain(s) THEN s
    ELSE Concat([i \in 1..Len(bytes) |-> IF bytes[i] = "[" THEN "[[" ELSE bytes[i]],
                1, Len(bytes), "")

(***************************************************************************)
(* makeCacheKey (index.js:59-64).  JSON.stringify writes the option fields *)
(* in the order the handler lists them and omits an undefined tint; in a   *)
(* string it escapes the quote, the backslash, the control characters and  *)
(* the lone surrogates.  The SHA-256 digest is modelled as collision free  *)
(* on the bytes it is given: the digest of an encoding is the encoding     *)
(* under a tag.                                                            *)
(***************************************************************************)
\* JSON.stringify of a string: QuoteJSONString on its code units.
JsonString(s) ==
    LET LowerHexDigit(d) ==
            CASE d = "A" -> "a" [] d = "B" -> "b" [] d = "C" -> "c"
              [] d = "D" -> "d" [] d = "E" -> "e" [] d = "F" -> "f" [] OTHER -> d
        \* The escape \uhhhh of a named code unit, in lower-case digits.
        UnicodeEscape(u) ==
            "\\u" \o LowerHexDigit(SubSeq(u, 4, 4)) \o LowerHexDigit(SubSeq(u, 5, 5))
            \o LowerHexDigit(SubSeq(u, 6, 6)) \o LowerHexDigit(SubSeq(u, 7, 7))
        IsControl(u) == Len(u) = 8 /\ SubSeq(u, 4, 6) \in {"000", "001"}
        JsonEscapeUnit(u, lone) ==
            CASE u = "\""       -> "\\\""
              [] u = "\\"       -> "\\\\"
              [] u = "\n"       -> "\\n"
              [] u = "\t"       -> "\\t"
              [] u = "\r"       -> "\\r"
              [] u = "\f"       -> "\\f"
              [] u = "[U+0008]" -> "\\b"
              [] IsControl(u) \/ lone -> UnicodeEscape(u)
              [] OTHER          -> u
    IN "\"" \o Concat([i \in 1..Len(s) |->
                          IF IsInsideUnit(s, i) THEN ""
                          ELSE JsonEscapeUnit(UnitAt(s, i), IsLoneSurrogateAt(s, i))],
                      1, Len(s), "")
       \o "\""

JsonStringifyOptions(options) ==
    LET JsonBool(b) == IF b THEN "true" ELSE "false" IN
    "{\"floatPrecision\":" \o ToString(options.floatPrecision)
    \o ",\"fillBlack\":" \o JsonBool(options.fillBlack)
    \o ",\"xmlTag\":" \o JsonBool(options.xmlTag)
    \o (IF IsSome(options.tint) THEN ",\"tint\":" \o JsonString(options.tint[1]) ELSE "")
    \o "}"

\* hash.digest('hex') of the bytes the updates gave, one after the other.
Sha256Hex(bytes) == "sha256:" \o bytes

makeCacheKey(svg, options) ==
    Sha256Hex(Utf8String(svg) \o Utf8String(JsonStringifyOptions(options)))

(***************************************************************************)
(* The Map operations the cache uses, on the sequence of entries.          *)
(***************************************************************************)
MapKeys(m) == {m[i].key : i \in 1..Len(m)}
MapHas(m, key) == key \in MapKeys(m)
\* Map.get: the value, or undefined.
MapGet(m, key) ==
    IF MapHas(m, key) THEN Some(m[CHOOSE i \in 1..Len(m) : m[i].key = key].value) ELSE None
\* Map.delete: the other entries keep their order.
MapDelete(m, key) == SelectSeq(m, LAMBDA e : e.key # key)
\* Map.set: an existing key keeps its place and takes the value; a new key goes last.
MapSet(m, key, value) ==
    IF MapHas(m, key)
    THEN [i \in 1..Len(m) |-> IF m[i].key = key THEN [key |-> key, value |-> value] ELSE m[i]]
    ELSE Append(m, [key |-> key, value |-> value])

(***************************************************************************)
(* getCached (index.js:66-73): the returned value and the Map afterwards.  *)
(***************************************************************************)
\* Faulty variant: the hit is returned without the delete and re-insert.
getCachedNoRefresh(cache, key) ==
    [ret |-> IF Truthy(MapGet(cache, key)) THEN MapGet(cache, key) ELSE None, cache |-> cache]

\* Faulty variant: the re-insert puts the entry back with the key as its value.
getCachedWrongReinsert(cache, key) ==
    LET existing == MapGet(cache, key) IN
    IF ~Truthy(existing)
    THEN [ret |-> None, cache |-> cache]
    ELSE [ret |-> existing, cache |-> MapSet(MapDelete(cache, key), key, key)]

getCached(cache, key) ==
    LET existing == MapGet(cache, key) IN
    IF ~Truthy(existing)
    THEN [ret |-> None, cache |-> cache]
    ELSE [ret |-> existing, cache |-> MapSet(MapDelete(cache, key), key, existing[1])]

(***************************************************************************)
(* setCache (index.js:75-83): the Map afterwards.                          *)
(***************************************************************************)
\* Faulty variant: no eviction.
setCacheNoEvict(cache, key, value) == MapSet(cache, key, value)

\* Faulty variant: the size test is > instead of >=.
setCacheOffByOne(cache, key, value) ==
    MapSet(IF Len(cache) > MAX_CACHE_SIZE THEN MapDelete(cache, cache[1].key) ELSE cache, key, value)

setCache(cache, key, value) ==
    LET \* Map.keys().next().value: the first key in insertion order, or undefined.
        oldestKey == IF Len(cache) > 0 THEN Some(cache[1].key) ELSE None
        trimmed == IF Len(cache) >= MAX_CACHE_SIZE /\ Truthy(oldestKey)
                   THEN MapDelete(cache, oldestKey[1])
                   ELSE cache
    IN MapSet(trimmed, key, value)

(***************************************************************************)
(* svg2vectordrawable: the vendored converter, an opaque deterministic     *)
(* function of the SVG text and the options: the promise it returns        *)
(* resolves with the XML, resolves with the empty string for a text that   *)
(* holds no SVG element, resolves with a value that is no string (an       *)
(* object) for one text, or rejects for markup that cannot be parsed.  A   *)
(* resolved value is given with its typeof and, when it is no string, the  *)
(* text String() makes of it.                                              *)
(***************************************************************************)
NotSvg == "not svg markup"
Malformed == "<svg"
Unsupported == "<svg unsupported=\"\"/>"

svg2vectordrawable(svg, options) ==
    IF svg = Malformed THEN [ok |-> FALSE, message |-> "Unclosed root tag"]
    ELSE IF svg = NotSvg THEN [ok |-> TRUE, type |-> "string", value |-> Some("")]
    ELSE IF svg = Unsupported
    THEN [ok |-> TRUE, type |-> "object", value |-> Some("[object Object]")]
    ELSE [ok |-> TRUE, type |-> "string",
          value |-> Some((IF options.xmlTag THEN "<?xml version=\"1.0\"?>" ELSE "")
                         \o "<vector precision=\"" \o ToString(options.floatPrecision) \o "\""
                         \o (IF options.fillBlack THEN " fill=\"#000\"" ELSE "")
                         \o (IF IsSome(options.tint) THEN " tint=\"" \o options.tint[1] \o "\"" ELSE "")
                         \o ">" \o svg \o "</vector>")]

(***************************************************************************)
(* The clients of the cache: conversion requests for the SVG texts         *)
(* numbered n, with the schema's default options (index.js:39-48).         *)
(***************************************************************************)
DefaultOptions == [floatPrecision |-> 2, fillBlack |-> FALSE, xmlTag |-> FALSE, tint |-> None]
SvgText(n) == "<svg id=\"" \o ToString(n) \o "\"/>"
FreshKey(n) == makeCacheKey(SvgText(n), DefaultOptions)
FreshXml(n) == svg2vectordrawable(SvgText(n), DefaultOptions).value[1]
\* The key of a request no run presents through SetCacheFresh.
StrangerKey == makeCacheKey("<svg/>", DefaultOptions)

\* The Map after the requests first..last, no more than it has room for, have
\* each been set once: their entries in the order they were set.
FilledCache(first, last) ==
    [i \in 1..(last - first + 1) |->
        [key |-> FreshKey(first + i - 1), value |-> FreshXml(first + i - 1)]]

\* History: x becomes the most recently used of the keys that are still cached.
Touched(order, cacheAfter, x) ==
    SelectSeq(Append(SelectSeq(order, LAMBDA y : y # x), x), LAMBDA y : MapHas(cacheAfter, y))

NoCall == [op |-> "none", key |-> "", ret |-> None, removed |-> {},
           hadKey |-> FALSE, sizeBefore |-> 0, lru |-> None]
NoHit == [key |-> None, fresh |-> 0]

\* The cache of a server that has so far converted `prefill` distinct SVG texts.
CacheInitOf(prefill) ==
    /\ conversionCache = FilledCache(1 - prefill, 0)
    /\ insertRun = [ok |-> prefill = 0, keys |-> <<>>]
    /\ accessOrder = [i \in 1..Len(conversionCache) |-> conversionCache[i].key]
    /\ nextFresh = 1
    /\ touches = 0
    /\ lastCall = NoCall
    /\ afterHit = NoHit

CacheInit == CacheInitOf(0)
(***************************************************************************)
(* The keys a non-fresh operation is tried on: the oldest and the newest   *)
(* entry of the Map, the first fresh key once it has been evicted, and a   *)
(* key that was never cached.                                              *)
(***************************************************************************)
CachedProbes ==
    IF Len(conversionCache) = 0 THEN {}
    ELSE {conversionCache[1].key, conversionCache[Len(conversionCache)].key}
AbsentProbes ==
    IF nextFresh > 1 /\ ~MapHas(conversionCache, FreshKey(1)) THEN {FreshKey(1)} ELSE {}

CallRecord(op, key, ret, after) ==
    [op |-> op, key |-> key, ret |-> ret,
     removed |-> MapKeys(conversionCache) \ MapKeys(after),
     hadKey |-> MapHas(conversionCache, key),
     sizeBefore |-> Len(conversionCache),
     lru |-> IF Len(accessOrder) > 0 THEN Some(accessOrder[1]) ELSE None]

\* One call of getCached(key).
GetCachedCall(key) ==
    LET r == getCached(conversionCache, key) IN
    /\ conversionCache' = r.cache
    /\ lastCall' = CallRecord("getCached", key, r.ret, r.cache)
    /\ accessOrder' = IF IsSome(r.ret) THEN Touched(accessOrder, r.cache, key) ELSE accessOrder
    /\ insertRun' = [ok |-> FALSE, keys |-> <<>>]
    /\ afterHit' = IF IsSome(r.ret) THEN [key |-> Some(key), fresh |-> 0] ELSE NoHit

\* One call of setCache(key, value); isNew: the key was never cached before.
SetCacheCall(key, value, isNew) ==
    LET after == setCache(conversionCache, key, value) IN
    /\ conversionCache' = after
    /\ lastCall' = CallRecord("setCache", key, None, after)
    /\ accessOrder' = Touched(accessOrder, after, key)
    /\ insertRun' = IF insertRun.ok /\ isNew
                    THEN [ok |-> TRUE, keys |-> Append(insertRun.keys, key)]
                    ELSE [ok |-> FALSE, keys |-> <<>>]
    /\ afterHit' = IF IsSome(afterHit.key) /\ isNew /\ afterHit.fresh < MAX_CACHE_SIZE
                   THEN [afterHit EXCEPT !.fresh = @ + 1]
                   ELSE NoHit

\* setCache for a request whose SVG text was never presented before.
SetCacheFresh ==
    /\ nextFresh <= MaxFresh
    /\ SetCacheCall(FreshKey(nextFresh), FreshXml(nextFresh), TRUE)
    /\ nextFresh' = nextFresh + 1
    /\ UNCHANGED <<touches, adbVars, convVars, pureVars>>

\* getCached for a key that is cached (a hit) or is not (a miss).
GetCachedTouch(key) ==
    /\ touches < MaxTouches
    /\ key \in CachedProbes \cup AbsentProbes \cup {StrangerKey}
    /\ GetCachedCall(key)
    /\ touches' = touches + 1
    /\ UNCHANGED <<nextFresh, adbVars, convVars, pureVars>>

\* setCache for a key that is cached (an overwrite) or was evicted (a
\* re-insertion), with a value other than the converter's.
SetCacheTouch(key) ==
    /\ touches < MaxTouches
    /\ key \in CachedProbes \cup AbsentProbes
    /\ SetCacheCall(key, "<vector/>", FALSE)
    /\ touches' = touches + 1
    /\ UNCHANGED <<nextFresh, adbVars, convVars, pureVars>>

CacheNext ==
    \/ SetCacheFresh
    \/ \E key \in CachedProbes \cup AbsentProbes \cup {StrangerKey} : GetCachedTouch(key)
    \/ \E key \in CachedProbes \cup AbsentProbes : SetCacheTouch(key)


(***************************************************************************)
(* Text that the code trims, splits or searches is a sequence of chunks:   *)
(* each white-space character is a chunk of its own and every other chunk  *)
(* is a run of characters without white space.  Flat is the string.        *)
(***************************************************************************)
\* The white space of trim, trimEnd and the regular expression \s: the
\* WhiteSpace and LineTerminator code points of ECMAScript.
WhiteSpace ==
    {"\t", "\n", "[U+000B]", "\f", "\r", " ", "[U+00A0]", "[U+1680]",
     "[U+2000]", "[U+2001]", "[U+2002]", "[U+2003]", "[U+2004]", "[U+2005]",
     "[U+2006]", "[U+2007]", "[U+2008]", "[U+2009]", "[U+200A]",
     "[U+2028]", "[U+2029]", "[U+202F]", "[U+205F]", "[U+3000]", "[U+FEFF]"}
IsSpace(c) == c \in WhiteSpace

RECURSIVE Flat(_)
Flat(t) == IF t = <<>> THEN "" ELSE Head(t) \o Flat(Tail(t))

\* String.prototype.trimEnd, trimStart and trim.
RECURSIVE trimEnd(_)
trimEnd(t) ==
    IF t = <<>> THEN <<>>
    ELSE IF IsSpace(t[Len(t)]) THEN trimEnd(SubSeq(t, 1, Len(t) - 1)) ELSE t

RECURSIVE trimStart(_)
trimStart(t) ==
    IF t = <<>> THEN <<>>
    ELSE IF IsSpace(Head(t)) THEN trimStart(Tail(t)) ELSE t

trim(t) == trimEnd(trimStart(t))

\* Array.prototype.join on strings.
RECURSIVE Join(_, _)
Join(strs, sep) ==
    IF strs = <<>> THEN ""
    ELSE IF Len(strs) = 1 THEN strs[1]
    ELSE strs[1] \o sep \o Join(Tail(strs), sep)

\* output.split(/\s+/).find(Boolean): the first maximal run of chunks that
\* are not white space, or undefined.
RECURSIVE LeadingWord(_)
LeadingWord(t) ==
    IF t = <<>> \/ IsSpace(Head(t)) THEN "" ELSE Head(t) \o LeadingWord(Tail(t))

FirstToken(t) == IF trimStart(t) = <<>> THEN None ELSE Some(LeadingWord(trimStart(t)))

\* text.split('\n'): the lines, as chunk sequences.
RECURSIVE SplitLines(_)
SplitLines(t) ==
    IF \A i \in 1..Len(t) : t[i] # "\n" THEN <<t>>
    ELSE LET i == CHOOSE j \in 1..Len(t) : t[j] = "\n" /\ \A k \in 1..(j - 1) : t[k] # "\n"
         IN <<SubSeq(t, 1, i - 1)>> \o SplitLines(SubSeq(t, i + 1, Len(t)))

\* lines.join('\n')
RECURSIVE JoinLines(_)
JoinLines(lines) ==
    IF lines = <<>> THEN <<>>
    ELSE IF Len(lines) = 1 THEN lines[1]
    ELSE lines[1] \o <<"\n">> \o JoinLines(Tail(lines))

(***************************************************************************)
(* execFileAsync('adb', args, {timeout, maxBuffer}) (logcat tool module,   *)
(* lines 120-123).  The promise settles when the child has closed or could *)
(* not be started.  It rejects with an error whose message names the       *)
(* command, and which carries the output and error streams captured so far.*)
(***************************************************************************)
execFileOptions(timeoutMs) == [timeout |-> timeoutMs, maxBuffer |-> 5 * 1024 * 1024]

\* The error a settled execFile rejects with, by the way the child ended:
\* it could not be spawned, one of its streams ("stdout", "stderr") went over
\* maxBuffer, or it closed with a status other than 0 or by a signal.
ExecError(kind, args, stdout, stderr) ==
    [kind |-> kind,
     message |-> CASE kind = "spawn"  -> "spawn adb ENOENT"
                   [] kind = "stdout" -> "stdout maxBuffer length exceeded"
                   [] kind = "stderr" -> "stderr maxBuffer length exceeded"
                   [] OTHER           -> "Command failed: " \o Join(<<"adb">> \o args, " ")
                                         \o "\n" \o Flat(stderr),
     stdout |-> Some(stdout),
     stderr |-> Some(stderr)]

Resolved(stdout) == [ok |-> TRUE, stdout |-> stdout]
Rejected(error) == [ok |-> FALSE, error |-> error]

(***************************************************************************)
(* runAdbCommand (lines 118-133), on the settled execFile promise: the     *)
(* returned text, or the message of the Error it throws.                   *)
(***************************************************************************)
\* Faulty variant: the error stream is appended untrimmed and unconditionally.
runAdbCommandRawStderr(args, exec) ==
    IF exec.ok
    THEN [ok |-> TRUE, value |-> trimEnd(exec.stdout)]
    ELSE [ok |-> FALSE,
          message |-> "adb " \o Join(args, " ") \o " failed: " \o exec.error.message
                      \o " | stderr: " \o Flat(exec.error.stderr[1])]

\* Faulty variant: the output is trimmed at both ends.
runAdbCommandTrimBoth(args, exec) ==
    IF exec.ok
    THEN [ok |-> TRUE, value |-> trim(exec.stdout)]
    ELSE LET error == exec.error
             stderr == IF IsSome(error.stderr) THEN Flat(trim(error.stderr[1])) ELSE ""
             parts == SelectSeq(<<"adb " \o Join(args, " ") \o " failed", error.message>>,
                                LAMBDA x : x # "")
             message == Join(parts, ": ")
         IN IF stderr # ""
            THEN [ok |-> FALSE, message |-> message \o " | stderr: " \o stderr]
            ELSE [ok |-> FALSE, message |-> message]

runAdbCommand(args, exec) ==
    IF exec.ok
    THEN [ok |-> TRUE, value |-> trimEnd(exec.stdout)]
    ELSE LET error == exec.error
             stderr == IF IsSome(error.stderr) THEN Flat(trim(error.stderr[1])) ELSE ""
             parts == SelectSeq(<<"adb " \o Join(args, " ") \o " failed", error.message>>,
                                LAMBDA x : x # "")
             message == Join(parts, ": ")
         IN IF stderr # ""
            THEN [ok |-> FALSE, message |-> message \o " | stderr: " \o stderr]
            ELSE [ok |-> FALSE, message |-> message]

(***************************************************************************)
(* resolvePid (lines 135-142), on the result of its runAdbCommand call.    *)
(***************************************************************************)
\* Faulty variant: pidof is asked for every pid of the package.
PidofArgsAll(packageName) == <<"shell", "pidof", packageName>>

PidofArgs(packageName) == <<"shell", "pidof", "-s", packageName>>

\* Faulty variant: the token is taken at the start of the output, where
\* leading white space gives an empty one.
resolvePidFromStart(packageName, ran) ==
    IF ~ran.ok THEN ran
    ELSE IF LeadingWord(ran.value) = ""
    THEN [ok |-> FALSE, message |-> "Could not resolve pid for package " \o packageName]
    ELSE [ok |-> TRUE, value |-> LeadingWord(ran.value)]

resolvePid(packageName, ran) ==
    IF ~ran.ok THEN ran
    ELSE LET pid == FirstToken(ran.value) IN
         IF ~Truthy(pid)
         THEN [ok |-> FALSE, message |-> "Could not resolve pid for package " \o packageName]
         ELSE [ok |-> TRUE, value |-> pid[1]]

(***************************************************************************)
(* buildLogcatArgs (lines 144-154).                                        *)
(***************************************************************************)
\* Faulty variant: the tag filter is put before the pid filter.
buildLogcatArgsTagFirst(params, pid) ==
    <<"logcat", "-d", "-t", ToString(params.maxLines)>>
    \o (IF Truthy(params.tag) THEN <<"-s", params.tag[1] \o ":" \o params.priority>> ELSE <<>>)
    \o (IF Truthy(pid) THEN <<"--pid=" \o pid[1]>> ELSE <<>>)

buildLogcatArgs(params, pid) ==
    <<"logcat", "-d", "-t", ToString(params.maxLines)>>
    \o (IF Truthy(pid) THEN <<"--pid=" \o pid[1]>> ELSE <<>>)
    \o (IF Truthy(params.tag) THEN <<"-s", params.tag[1] \o ":" \o params.priority>> ELSE <<>>)

(***************************************************************************)
(* The session of a request whose extra carries a session id, and the      *)
(* logging message a handler hands to server.sendLoggingMessage: the       *)
(* handler does not await the promise and catches its rejection.           *)
(***************************************************************************)
Session == Some("session-1")
NoSession == None

Sent(data) == Some([data |-> data, state |-> "sent"])

(***************************************************************************)
(* The tool handlers (lines 165-316).  A handler is resumed with the       *)
(* result of the runAdbCommand call it awaited (at "start": with nothing)  *)
(* and runs to its next await, its return or its throw.                    *)
(***************************************************************************)
Await(c, pc, args) ==
    [call |-> [c EXCEPT !.pc = pc, !.started = Append(@, args)], spawn |-> Some(args)]
Return(c, text) ==
    [call |-> [c EXCEPT !.pc = "done", !.outcome = Some([ok |-> TRUE, text |-> text])],
     spawn |-> None]
Throw(c, message) ==
    [call |-> [c EXCEPT !.pc = "done", !.outcome = Some([ok |-> FALSE, error |-> message])],
     spawn |-> None]

\* The data of read-adb-logcat's logging message (lines 178-182), the elapsed
\* time aside.
LogcatLogData(params, pid) ==
    "Read logcat (" \o ToString(params.maxLines) \o " lines"
    \o (IF Truthy(pid) THEN ", pid=" \o pid[1] ELSE "")
    \o (IF Truthy(params.tag) THEN ", tag=" \o params.tag[1] \o ":" \o params.priority ELSE "")
    \o ") in <elapsed>ms"

\* Faulty variant of read-adb-logcat: the logging promise is awaited without a
\* catch, and a request with a session fails with the rejection.
readAdbLogcatAwaitsLog(c, ran) ==
    LET params == c.params
        dump(pid) == Await([c EXCEPT !.pid = pid], "dump", buildLogcatArgs(params, pid))
    IN CASE c.pc = "start" ->
              IF Truthy(params.pid) THEN dump(params.pid)
              ELSE IF Truthy(params.packageName)
              THEN Await(c, "resolve", PidofArgs(params.packageName[1]))
              ELSE dump(None)
         [] c.pc = "resolve" ->
              LET r == resolvePid(params.packageName[1], ran) IN
              IF r.ok THEN dump(Some(r.value)) ELSE Throw(c, r.message)
         [] c.pc = "dump" ->
              IF ~ran.ok THEN Throw(c, ran.message)
              ELSE IF IsSome(c.extra.sessionId)
              THEN Throw([c EXCEPT !.log = Sent(LogcatLogData(params, c.pid))], "Not connected")
              ELSE IF Flat(ran.value) = "" THEN Return(c, "Logcat returned no lines.")
              ELSE Return(c, Flat(ran.value))

\* Faulty variant of read-adb-logcat: the package name is looked up even when
\* the request gives a pid.
readAdbLogcatLooksUpFirst(c, ran) ==
    LET params == c.params
        dump(pid) == Await([c EXCEPT !.pid = pid], "dump", buildLogcatArgs(params, pid))
        logged == IF IsSome(c.extra.sessionId)
                  THEN [c EXCEPT !.log = Sent(LogcatLogData(params, c.pid))]
                  ELSE c
    IN CASE c.pc = "start" ->
              IF Truthy(params.packageName)
              THEN Await(c, "resolve", PidofArgs(params.packageName[1]))
              ELSE dump(params.pid)
         [] c.pc = "resolve" ->
              LET r == resolvePid(params.packageName[1], ran) IN
              IF r.ok THEN dump(Some(r.value)) ELSE Throw(c, r.message)
         [] c.pc = "dump" ->
              IF ~ran.ok THEN Throw(c, ran.message)
              ELSE IF Flat(ran.value) = "" THEN Return(logged, "Logcat returned no lines.")
              ELSE Return(logged, Flat(ran.value))

\* read-adb-logcat (lines 165-197)
readAdbLogcat(c, ran) ==
    LET params == c.params
        dump(pid) == Await([c EXCEPT !.pid = pid], "dump", buildLogcatArgs(params, pid))
        logged == IF IsSome(c.extra.sessionId)
                  THEN [c EXCEPT !.log = Sent(LogcatLogData(params, c.pid))]
                  ELSE c
    IN CASE c.pc = "start" ->
              IF Truthy(params.pid) THEN dump(params.pid)
              ELSE IF Truthy(params.packageName)
              THEN Await(c, "resolve", PidofArgs(params.packageName[1]))
              ELSE dump(None)
         [] c.pc = "resolve" ->
              LET r == resolvePid(params.packageName[1], ran) IN
              IF r.ok THEN dump(Some(r.value)) ELSE Throw(c, r.message)
         [] c.pc = "dump" ->
              IF ~ran.ok THEN Throw(c, ran.message)
              ELSE IF Flat(ran.value) = "" THEN Return(logged, "Logcat returned no lines.")
              ELSE Return(logged, Flat(ran.value))

\* get-pid-by-package (lines 207-210)
getPidByPackage(c, ran) ==
    CASE c.pc = "start" -> Await(c, "resolve", PidofArgs(c.params.packageName[1]))
      [] c.pc = "resolve" ->
           LET r == resolvePid(c.params.packageName[1], ran) IN
           IF r.ok THEN Return([c EXCEPT !.pid = Some(r.value)], r.value) ELSE Throw(c, r.message)

\* get-current-activity (lines 221-231)
\* String.prototype.includes: needle is a substring of the line.
Includes(line, needle) ==
    LET s == Flat(line)
    IN \E i \in 1..(Len(s) - Len(needle) + 1) : SubSeq(s, i, i + Len(needle) - 1) = needle
Slice(xs, n) == SubSeq(xs, 1, IF Len(xs) < n THEN Len(xs) ELSE n)

\* Faulty variant of get-current-activity: every matching line is returned.
getCurrentActivityAllLines(c, ran) ==
    CASE c.pc = "start" -> Await(c, "dumpsys", <<"shell", "dumpsys", "window">>)
      [] c.pc = "dumpsys" ->
           IF ~ran.ok THEN Throw(c, ran.message)
           ELSE LET lines == SelectSeq(SplitLines(ran.value),
                                       LAMBDA line : Includes(line, "mCurrentFocus")
                                                     \/ Includes(line, "mFocusedApp"))
                    trimmed == Flat(trim(JoinLines(lines)))
                IN IF trimmed = "" THEN Return(c, "No focus info found in dumpsys window.")
                   ELSE Return(c, trimmed)

getCurrentActivity(c, ran) ==
    CASE c.pc = "start" -> Await(c, "dumpsys", <<"shell", "dumpsys", "window">>)
      [] c.pc = "dumpsys" ->
           IF ~ran.ok THEN Throw(c, ran.message)
           ELSE LET lines == SelectSeq(SplitLines(ran.value),
                                       LAMBDA line : Includes(line, "mCurrentFocus")
                                                     \/ Includes(line, "mFocusedApp"))
                    trimmed == Flat(trim(JoinLines(Slice(lines, 8))))
                IN IF trimmed = "" THEN Return(c, "No focus info found in dumpsys window.")
                   ELSE Return(c, trimmed)

\* Faulty variant of fetch-crash-stacktrace: an empty dump is returned as it is.
fetchCrashStacktraceAsIs(c, ran) ==
    LET params == c.params
        dump(pid) ==
            Await([c EXCEPT !.pid = pid], "dump",
                  <<"logcat", "-b", "crash", "-d", "-t", ToString(params.maxLines)>>
                  \o (IF Truthy(pid) THEN <<"--pid=" \o pid[1]>> ELSE <<>>))
    IN CASE c.pc = "start" ->
              IF Truthy(params.packageName)
              THEN Await(c, "resolve", PidofArgs(params.packageName[1]))
              ELSE dump(None)
         [] c.pc = "resolve" ->
              LET r == resolvePid(params.packageName[1], ran) IN
              IF r.ok THEN dump(Some(r.value)) ELSE Throw(c, r.message)
         [] c.pc = "dump" ->
              IF ~ran.ok THEN Throw(c, ran.message) ELSE Return(c, Flat(ran.value))

\* fetch-crash-stacktrace (lines 242-253)
fetchCrashStacktrace(c, ran) ==
    LET params == c.params
        dump(pid) ==
            Await([c EXCEPT !.pid = pid], "dump",
                  <<"logcat", "-b", "crash", "-d", "-t", ToString(params.maxLines)>>
                  \o (IF Truthy(pid) THEN <<"--pid=" \o pid[1]>> ELSE <<>>))
    IN CASE c.pc = "start" ->
              IF Truthy(params.packageName)
              THEN Await(c, "resolve", PidofArgs(params.packageName[1]))
              ELSE dump(None)
         [] c.pc = "resolve" ->
              LET r == resolvePid(params.packageName[1], ran) IN
              IF r.ok THEN dump(Some(r.value)) ELSE Throw(c, r.message)
         [] c.pc = "dump" ->
              IF ~ran.ok THEN Throw(c, ran.message)
              ELSE IF Flat(ran.value) = "" THEN Return(c, "No crash entries found.")
              ELSE Return(c, Flat(ran.value))

\* Faulty variant of check-anr-state: the failure of an invocation is not
\* caught and ends the call.
checkAnrStateStopsOnFailure(c, ran) ==
    LET push(section) == [c EXCEPT !.sections = Append(@, section)] IN
    CASE c.pc = "start" ->
           Await(c, "am", <<"logcat", "-d", "-t", ToString(c.params.maxLines),
                            "ActivityManager:E", "*:S">>)
      [] c.pc = "am" ->
           IF ~ran.ok THEN Throw(c, ran.message)
           ELSE Await(push(IF Flat(ran.value) # ""
                           THEN "ActivityManager (recent):\n" \o Flat(ran.value)
                           ELSE "ActivityManager (recent): no entries."),
                      "stat", <<"shell", "ls", "-l", "/data/anr/traces.txt">>)
      [] c.pc = "stat" ->
           IF ~ran.ok THEN Throw(c, ran.message)
           ELSE Await(push("traces.txt stat:\n" \o Flat(ran.value)),
                      "tail", <<"shell", "tail", "-n", "200", "/data/anr/traces.txt">>)
      [] c.pc = "tail" ->
           IF ~ran.ok THEN Throw(c, ran.message)
           ELSE LET done == push(IF Flat(ran.value) # ""
                                 THEN "traces.txt tail (200 lines):\n" \o Flat(ran.value)
                                 ELSE "traces.txt tail: empty.")
                IN Return(done, Join(done.sections, "\n\n"))

\* check-anr-state (lines 264-303)
checkAnrState(c, ran) ==
    LET push(section) == [c EXCEPT !.sections = Append(@, section)] IN
    CASE c.pc = "start" ->
           Await(c, "am", <<"logcat", "-d", "-t", ToString(c.params.maxLines),
                            "ActivityManager:E", "*:S">>)
      [] c.pc = "am" ->
           Await(push(IF ~ran.ok THEN "ActivityManager: " \o ran.message
                      ELSE IF Flat(ran.value) # ""
                      THEN "ActivityManager (recent):\n" \o Flat(ran.value)
                      ELSE "ActivityManager (recent): no entries."),
                 "stat", <<"shell", "ls", "-l", "/data/anr/traces.txt">>)
      [] c.pc = "stat" ->
           Await(push(IF ~ran.ok THEN "traces.txt stat: " \o ran.message
                      ELSE "traces.txt stat:\n" \o Flat(ran.value)),
                 "tail", <<"shell", "tail", "-n", "200", "/data/anr/traces.txt">>)
      [] c.pc = "tail" ->
           LET done == push(IF ~ran.ok THEN "traces.txt tail: " \o ran.message
                            ELSE IF Flat(ran.value) # ""
                            THEN "traces.txt tail (200 lines):\n" \o Flat(ran.value)
                            ELSE "traces.txt tail: empty.")
           IN Return(done, Join(done.sections, "\n\n"))

\* clear-logcat-buffer (lines 313-316)
clearLogcatBuffer(c, ran) ==
    CASE c.pc = "start" -> Await(c, "clear", <<"logcat", "-c">>)
      [] c.pc = "clear" ->
           IF ~ran.ok THEN Throw(c, ran.message) ELSE Return(c, "Cleared logcat buffers.")

\* registerLogcatTool (lines 156-318): the handler registered under each name.
Handler(c, ran) ==
    CASE c.tool = "read-adb-logcat"        -> readAdbLogcat(c, ran)
      [] c.tool = "get-pid-by-package"     -> getPidByPackage(c, ran)
      [] c.tool = "get-current-activity"   -> getCurrentActivity(c, ran)
      [] c.tool = "fetch-crash-stacktrace" -> fetchCrashStacktrace(c, ran)
      [] c.tool = "check-anr-state"        -> checkAnrState(c, ran)
      [] c.tool = "clear-logcat-buffer"    -> clearLogcatBuffer(c, ran)

(***************************************************************************)
(* Validated requests (the input schemas, lines 16-116) and what a child   *)
(* may write to its output and error streams.                              *)
(***************************************************************************)
TimeoutChoices == {1000, 15000}
PackageChoices == {None, Some("com.app")}

Params(packageName, pid, tag, priority, maxLines, timeoutMs) ==
    [packageName |-> packageName, pid |-> pid, tag |-> tag, priority |-> priority,
     maxLines |-> maxLines, timeoutMs |-> timeoutMs]

Requests ==
    {[tool |-> "read-adb-logcat", params |-> Params(pkg, pid, tag, prio, 200, t),
      extra |-> [sessionId |-> sessionId]] :
        pkg \in PackageChoices, pid \in {None, Some("777")},
        tag \in {None, Some("MyTag")}, prio \in {"V", "E"}, t \in TimeoutChoices,
        sessionId \in {NoSession, Session}}
    \cup {[tool |-> "get-pid-by-package", params |-> Params(Some("com.app"), None, None, "V", 200, t),
           extra |-> [sessionId |-> NoSession]] :
            t \in TimeoutChoices}
    \cup {[tool |-> "get-current-activity", params |-> Params(None, None, None, "V", 200, t),
           extra |-> [sessionId |-> NoSession]] :
            t \in TimeoutChoices}
    \cup {[tool |-> "fetch-crash-stacktrace", params |-> Params(pkg, None, None, "V", 400, t),
           extra |-> [sessionId |-> NoSession]] :
            pkg \in PackageChoices, t \in TimeoutChoices}
    \cup {[tool |-> "check-anr-state", params |-> Params(None, None, None, "V", 400, t),
           extra |-> [sessionId |-> NoSession]] :
            t \in TimeoutChoices}
    \cup {[tool |-> "clear-logcat-buffer", params |-> Params(None, None, None, "V", 200, t),
           extra |-> [sessionId |-> NoSession]] :
            t \in TimeoutChoices}

\* logcatInputSchema's refinement (lines 44-46): one of packageName, pid and
\* tag is given.  The priority is accepted with or without a tag.
ValidRequest(req) ==
    req.tool = "read-adb-logcat" =>
        Truthy(req.params.packageName) \/ Truthy(req.params.pid) \/ Truthy(req.params.tag)

\* An indented line of dumpsys window that names a focus, the n-th of its dump.
FocusLine(n) ==
    <<" ", IF n % 2 = 1 THEN "mCurrentFocus" ELSE "mFocusedApp", "=Window{" \o ToString(n) \o "}",
      " ", "\n">>

\* A dump with more focus lines than get-current-activity returns, other
\* lines among them.
LongFocusDump ==
    <<"WINDOW", " ", "MANAGER", "\n">> \o FocusLine(1) \o FocusLine(2) \o <<" ", "mOther", "\n">>
    \o FocusLine(3) \o FocusLine(4) \o FocusLine(5) \o FocusLine(6) \o <<"\n">>
    \o FocusLine(7) \o FocusLine(8) \o FocusLine(9) \o FocusLine(10)

StdoutPool ==
    { <<>>,
      <<"\n">>,
      <<"\f", "[U+FEFF]", "[U+00A0]", "\n">>,
      <<" ", " ", "4821", " ", "\n">>,
      <<"E/AndroidRuntime:", " ", "FATAL", "\n">>,
      <<" ", "mCurrentFocus=Window{u0", " ", "com.app/.Main}", "\n",
        "mOther", "\n", " ", "XmFocusedApp=ActivityRecord{com.app}", " ", "\n">>,
      LongFocusDump }

\* What a child that fails had written to its output stream.
PartialStdoutPool == { <<>>, <<"--------- beginning of main", "\n">> }

StderrPool ==
    { <<>>,
      <<" ", "[U+00A0]", "\n">>,
      <<"\n", "error:", " ", "device", " ", "offline", "\n">> }

\* The first maxBuffer (5242880) characters of a stream that went over
\* maxBuffer: a run of that many characters without white space.
Overflowed == <<"x...(5242880 characters)">>

(***************************************************************************)
(* The tool calls and their child processes.                               *)
(***************************************************************************)
NoInvocation == [state |-> "none", args |-> <<>>, options |-> execFileOptions(0),
                 timer |-> FALSE, seq |-> 0, cause |-> "", signals |-> 0]
NoRun == [args |-> <<>>, ok |-> TRUE, exec |-> Resolved(<<>>), ran |-> [ok |-> TRUE, value |-> <<>>]]
IdleCall == [tool |-> "", params |-> Params(None, None, None, "V", 0, 0), pc |-> "idle",
             extra |-> [sessionId |-> NoSession], log |-> None,
             pid |-> None, sections |-> <<>>, started |-> <<>>, failures |-> <<>>,
             timedOut |-> FALSE,   \* history: a timeout expired before the child had closed
             outcome |-> None]

AdbInit ==
    /\ call = IdleCall
    /\ inv = NoInvocation
    /\ children = 0
    /\ lastRun = NoRun

\* execFileAsync is called: the invocation exists, its child is being spawned.
Spawning(args, timeoutMs, seq) ==
    [state |-> "spawning", args |-> args, options |-> execFileOptions(timeoutMs),
     timer |-> FALSE, seq |-> seq, cause |-> "", signals |-> 0]

\* The handler runs from its resumption to its next await or its end.
Advance(c, ran, seq) ==
    LET r == Handler(c, ran) IN
    /\ call' = r.call
    /\ inv' = IF IsSome(r.spawn)
              THEN Spawning(r.spawn[1], c.params.timeoutMs, seq + 1)
              ELSE NoInvocation

\* The protocol layer dispatches a validated request to its handler.
StartCall(req) ==
    /\ call.pc = "idle"
    /\ ValidRequest(req)
    /\ Advance([IdleCall EXCEPT !.tool = req.tool, !.params = req.params,
                                !.extra = req.extra, !.pc = "start"],
               NoRun.ran, 0)
    /\ lastRun' = NoRun
    /\ UNCHANGED <<children, cacheVars, convVars, pureVars>>

\* The handler's promise has settled: the outcome goes to the caller.
Respond ==
    /\ call.pc = "done"
    /\ call' = IdleCall
    /\ lastRun' = NoRun
    /\ UNCHANGED <<inv, children, cacheVars, convVars, pureVars>>

\* The promise of sendLoggingMessage settles, with the message delivered or
\* not: the rejection is caught and nothing else happens.
LogSettles(delivered) ==
    /\ IsSome(call.log) /\ call.log[1].state = "sent"
    /\ call' = [call EXCEPT !.log = Some([@[1] EXCEPT !.state = IF delivered THEN "delivered"
                                                                ELSE "failed"])]
    /\ UNCHANGED <<inv, children, lastRun, cacheVars, convVars, pureVars>>

\* The execFile promise settles; runAdbCommand returns or throws into the handler.
Settle(exec) ==
    LET ran == runAdbCommand(inv.args, exec)
        c == [call EXCEPT !.failures = IF ran.ok THEN @ ELSE Append(@, ran.message)]
    IN /\ Advance(c, ran, inv.seq)
       /\ lastRun' = [args |-> inv.args, ok |-> exec.ok, exec |-> exec, ran |-> ran]

\* The child process starts; execFile arms its timer when a timeout is set.
ProcessStarts ==
    /\ inv.state = "spawning"
    /\ inv' = [inv EXCEPT !.state = "running", !.timer = inv.options.timeout > 0]
    /\ children' = children + 1
    /\ UNCHANGED <<call, lastRun, cacheVars, convVars, pureVars>>

\* adb cannot be started (ENOENT): the promise rejects, no process exists.
SpawnFails ==
    /\ inv.state = "spawning"
    /\ Settle(Rejected(ExecError("spawn", inv.args, <<>>, <<>>)))
    /\ UNCHANGED <<children, cacheVars, convVars, pureVars>>

\* The child exits by itself, with status 0 or not.
ChildExits(code, stdout, stderr) ==
    /\ inv.state = "running"
    /\ Settle(IF code = 0 THEN Resolved(stdout)
              ELSE Rejected(ExecError("exit", inv.args, stdout, stderr)))
    /\ children' = children - 1
    /\ UNCHANGED <<cacheVars, convVars, pureVars>>

\* The timeout expires before the child has closed: execFile sends the
\* child SIGTERM and the timer is spent.  A child that was signalled for its
\* output is signalled again, and the error execFile kept stays.
TimerExpires ==
    /\ inv.state \in {"running", "signalled"}
    /\ inv.timer
    /\ inv' = [inv EXCEPT !.state = "signalled", !.timer = FALSE,
                          !.cause = IF inv.state = "running" THEN "timeout" ELSE @,
                          !.signals = @ + 1]
    /\ call' = [call EXCEPT !.timedOut = TRUE]
    /\ UNCHANGED <<children, lastRun, cacheVars, convVars, pureVars>>

\* The child writes more than maxBuffer to one of its streams: execFile
\* keeps the error and sends the child SIGTERM.  The timer stays armed.
OutputOverflows(stream) ==
    /\ inv.state = "running"
    /\ inv' = [inv EXCEPT !.state = "signalled", !.cause = stream, !.signals = @ + 1]
    /\ UNCHANGED <<call, children, lastRun, cacheVars, convVars, pureVars>>

\* The signalled child closes: killed by the signal (status None), or after
\* handling or ignoring it, with a status of its own.  The promise rejects
\* with the error execFile kept; after a timeout there is none, and a child
\* that closes with status 0 and no signal resolves the promise.
ChildDies(status, stdout, stderr) ==
    /\ inv.state = "signalled"
    /\ Settle(IF inv.cause = "timeout" /\ status = Some(0)
              THEN Resolved(stdout)
              ELSE Rejected(ExecError(inv.cause, inv.args, stdout, stderr)))
    /\ children' = children - 1
    /\ UNCHANGED <<cacheVars, convVars, pureVars>>

\* What execFile holds of a stream when the signalled child closes: the
\* first maxBuffer characters of the stream that went over, and of another
\* stream what the child wrote to it, a text of the pool.
Signalled(stream, pool) == IF inv.cause = stream THEN {Overflowed} ELSE pool

\* A signalled child closes.  After an overflow the promise rejects whatever
\* the status; after a timeout a child that closes with status 0 has
\* written its whole output.
SignalledChildCloses(partialStdout, stderrs, stdouts) ==
    \/ \E status \in {None, Some(0), Some(1)}, stdout \in Signalled("stdout", partialStdout),
          stderr \in Signalled("stderr", stderrs) :
           /\ status = Some(0) => inv.cause # "timeout"
           /\ ChildDies(status, stdout, stderr)
    \/ \E stdout \in stdouts :
           /\ inv.cause = "timeout"
           /\ ChildDies(Some(0), stdout, <<>>)

AdbNext ==
    \/ \E req \in Requests : StartCall(req)
    \/ Respond
    \/ \E delivered \in BOOLEAN : LogSettles(delivered)
    \/ ProcessStarts
    \/ SpawnFails
    \/ \E stdout \in StdoutPool : ChildExits(0, stdout, <<>>)
    \/ \E stdout \in PartialStdoutPool, stderr \in StderrPool : ChildExits(1, stdout, stderr)
    \/ TimerExpires
    \/ \E stream \in {"stdout", "stderr"} : OutputOverflows(stream)
    \/ SignalledChildCloses(PartialStdoutPool, StderrPool, StdoutPool)

\* The same calls with one text per kind of child output, for the check of
\* progress, which does not depend on the texts.
AdbLiveNext ==
    \/ \E req \in Requests : StartCall(req)
    \/ Respond
    \/ \E delivered \in BOOLEAN : LogSettles(delivered)
    \/ ProcessStarts
    \/ SpawnFails
    \/ \E stdout \in {<<>>, <<"4821", "\n">>} : ChildExits(0, stdout, <<>>)
    \/ ChildExits(1, <<>>, <<"error:", " ", "closed", "\n">>)
    \/ TimerExpires
    \/ \E stream \in {"stdout", "stderr"} : OutputOverflows(stream)
    \/ SignalledChildCloses({<<>>}, {<<>>}, {<<>>})

\* The event loop delivers timers and process events.  execFile sends the
\* child SIGTERM when its output overflows and when the timeout expires, and
\* nothing after that: a child may run forever, whether it was signalled or
\* not.
AdbFairness ==
    /\ WF_vars(ProcessStarts \/ SpawnFails)
    /\ WF_vars(TimerExpires)

(***************************************************************************)
(* The convert-svg-to-android-drawable handler (index.js:107-158).  Its    *)
(* awaits are loadSvg, svg2vectordrawable and maybeWriteOutput, which in   *)
(* turn awaits fs.mkdir and fs.writeFile (open, write, close); between two *)
(* awaits a call runs without interruption, and calls interleave at the    *)
(* awaits.                                                                 *)
(***************************************************************************)
ConvertParams(svg, svgPath, outputPath, options, cache) ==
    [svg |-> svg, svgPath |-> svgPath, outputPath |-> outputPath,
     floatPrecision |-> options.floatPrecision, fillBlack |-> options.fillBlack,
     xmlTag |-> options.xmlTag, tint |-> options.tint, cache |-> cache]

TintedOptions == [DefaultOptions EXCEPT !.tint = Some("#FF000000")]

\* What the protocol layer hands the handler: the validated arguments
\* (convertInputSchema, index.js:30-54) and the extra of the request.
ConvertRequest(params, sessionId) == [params |-> params, extra |-> [sessionId |-> sessionId]]

\* A text that holds a surrogate without its partner (JSON.parse gives such
\* a string for "\ud800" in a request).
LoneSurrogateText(n) == "<svg id=\"[U+D80" \o ToString(n) \o "]\"/>"

\* The requests of a run: one text with and without the cache, and with
\* other options and an output path; texts the converter gives no XML for,
\* one of them with another spelling of the output path; a file; and two
\* texts that differ in a lone surrogate.
ConvertRequests ==
    { ConvertRequest(ConvertParams(Some(SvgText(1)), None, None, DefaultOptions, TRUE), None),
      ConvertRequest(ConvertParams(Some(SvgText(1)), None, None, DefaultOptions, FALSE), None),
      ConvertRequest(ConvertParams(Some(SvgText(1)), None, Some("./sub/..//out.xml"), TintedOptions, TRUE), None),
      ConvertRequest(ConvertParams(Some(NotSvg), None, Some("out.xml"), DefaultOptions, TRUE), None),
      ConvertRequest(ConvertParams(Some(Malformed), None, None, DefaultOptions, FALSE), None),
      ConvertRequest(ConvertParams(Some(Unsupported), None, Some("out.xml"), DefaultOptions, TRUE), None),
      ConvertRequest(ConvertParams(None, Some("in.svg"), None, DefaultOptions, TRUE), Session),
      ConvertRequest(ConvertParams(Some(LoneSurrogateText(0)), None, None, DefaultOptions, TRUE), None),
      ConvertRequest(ConvertParams(Some(LoneSurrogateText(1)), None, None, DefaultOptions, TRUE), None) }

\* The parts of a path between its slashes.
RECURSIVE SplitPath(_)
SplitPath(p) ==
    LET slashes == {i \in 1..Len(p) : CharAt(p, i) = "/"} IN
    IF slashes = {} THEN <<p>>
    ELSE LET i == CHOOSE k \in slashes : \A j \in slashes : k <= j
         IN <<SubSeq(p, 1, i - 1)>> \o SplitPath(SubSeq(p, i + 1, Len(p)))

\* normalizeString: empty parts and "." are dropped, ".." drops the part
\* before it and stays at the root.
RECURSIVE NormalizeParts(_, _)
NormalizeParts(parts, kept) ==
    IF parts = <<>> THEN kept
    ELSE LET x == Head(parts) IN
         NormalizeParts(Tail(parts),
                        IF x = "" \/ x = "." THEN kept
                        ELSE IF x = ".." THEN SubSeq(kept, 1, Len(kept) - 1)
                        ELSE Append(kept, x))

\* path.resolve of one path (posix): a relative path is taken from the
\* working directory (process.cwd(), here /cwd), and the result is
\* normalized, without a trailing slash.
PathResolve(p) ==
    LET full == IF Len(p) > 0 /\ CharAt(p, 1) = "/" THEN p ELSE "/cwd/" \o p
    IN "/" \o Join(NormalizeParts(SplitPath(full), <<>>), "/")

\* What reading the file at the resolved svgPath may give: its text, or the
\* code of an error.
ReadResults ==
    { [ok |-> TRUE, text |-> SvgText(2)],
      [ok |-> FALSE, code |-> "ENOENT: no such file or directory"] }
\* No file is read for a request with inline markup.
NotRead == [ok |-> FALSE, code |-> "not read"]

\* loadSvg (index.js:85-89), on the result of the file read.
loadSvg(params, read) ==
    IF Truthy(params.svg) THEN [ok |-> TRUE, text |-> params.svg[1]]
    ELSE IF read.ok THEN read
    ELSE [ok |-> FALSE,
          message |-> read.code \o ", open '" \o PathResolve(params.svgPath[1]) \o "'"]

\* The options object of the handler (index.js:109-114).
OptionsOf(params) ==
    [floatPrecision |-> params.floatPrecision, fillBlack |-> params.fillBlack,
     xmlTag |-> params.xmlTag, tint |-> params.tint]

IdleConvert ==
    [pc |-> "idle", params |-> ConvertParams(None, None, None, DefaultOptions, TRUE),
     extra |-> [sessionId |-> None],
     svgCode |-> None, cacheKey |-> None, hit |-> FALSE, xml |-> None,
     savedPath |-> None, logged |-> None, outcome |-> None,
     resolvedPath |-> None, \* the local of maybeWriteOutput
     data |-> <<>>,         \* the bytes fs.writeFile has to write: the encoded text
     position |-> 0,        \* the position of the file the call has open
     writeError |-> None,   \* the error of the write that failed, kept until the file is closed
     found |-> None,        \* history: the entry of the key when the handler reached the lookup
     conversions |-> 0,     \* history: the times the handler has called svg2vectordrawable
     stored |-> None]       \* history: the entry of the key when the handler had called setCache

\* maybeWriteOutput is called (index.js:132) and runs to its first await:
\* without an output path it has returned, with one it has resolved the
\* path and awaits fs.mkdir.
maybeWriteOutput(c) ==
    IF Truthy(c.params.outputPath)
    THEN [c EXCEPT !.pc = "mkdir", !.resolvedPath = Some(PathResolve(c.params.outputPath[1]))]
    ELSE [c EXCEPT !.pc = "write"]

ConvInit ==
    /\ conv = [i \in 1..MaxCalls |-> IdleConvert]
    /\ outputFile = <<>>

ConvThrow(c, message) ==
    [c EXCEPT !.pc = "done", !.outcome = Some([ok |-> FALSE, error |-> message])]

\* getCached and setCache as the handler calls them: the Map and the order
\* of its keys' last uses change; what the claims about the cache interface
\* observe of a call is not recorded here.
HandlerGetCached(key) ==
    LET r == getCached(conversionCache, key) IN
    /\ conversionCache' = r.cache
    /\ accessOrder' = IF IsSome(r.ret) THEN Touched(accessOrder, r.cache, key) ELSE accessOrder
    /\ UNCHANGED <<nextFresh, touches, lastCall, insertRun, afterHit>>

HandlerSetCache(key, value) ==
    LET after == setCache(conversionCache, key, value) IN
    /\ conversionCache' = after
    /\ accessOrder' = Touched(accessOrder, after, key)
    /\ UNCHANGED <<nextFresh, touches, lastCall, insertRun, afterHit>>

\* The protocol layer dispatches a validated request: the handler calls loadSvg.
StartConvert(i, request) ==
    /\ conv[i].pc = "idle"
    /\ \A j \in 1..(i - 1) : conv[j].pc # "idle"
    /\ conv' = [conv EXCEPT ![i] = [IdleConvert EXCEPT !.pc = "load", !.params = request.params,
                                                       !.extra = request.extra]]
    /\ UNCHANGED <<outputFile, cacheVars, adbVars, pureVars>>

\* Faulty variant: the cache is asked whatever params.cache says.
LoadSettlesAlwaysLooksUp(i, read) ==
    LET c == conv[i]
        loaded == loadSvg(c.params, read)
        cacheKey == makeCacheKey(loaded.text, OptionsOf(c.params))
        xml == getCached(conversionCache, cacheKey).ret
        keyed == [c EXCEPT !.svgCode = Some(loaded.text), !.cacheKey = Some(cacheKey),
                           !.found = MapGet(conversionCache, cacheKey)]
    IN
    /\ c.pc = "load"
    /\ Truthy(c.params.svg) <=> read = NotRead
    /\ IF ~loaded.ok
       THEN /\ conv' = [conv EXCEPT ![i] = ConvThrow(c, loaded.message)]
            /\ UNCHANGED cacheVars
       ELSE /\ conv' = [conv EXCEPT ![i] =
                         IF Truthy(xml)
                         THEN maybeWriteOutput([keyed EXCEPT !.hit = TRUE, !.xml = xml])
                         ELSE [keyed EXCEPT !.pc = "convert", !.conversions = @ + 1]]
            /\ HandlerGetCached(cacheKey)
    /\ UNCHANGED <<outputFile, adbVars, pureVars>>

\* loadSvg settles (index.js:108-125): the key is made, the cache is asked when
\* params.cache is set, and on a miss the conversion is started.
LoadSettles(i, read) ==
    LET c == conv[i]
        loaded == loadSvg(c.params, read)
        cacheKey == makeCacheKey(loaded.text, OptionsOf(c.params))
        xml == IF c.params.cache THEN getCached(conversionCache, cacheKey).ret ELSE None
        keyed == [c EXCEPT !.svgCode = Some(loaded.text), !.cacheKey = Some(cacheKey),
                           !.found = MapGet(conversionCache, cacheKey)]
    IN
    /\ c.pc = "load"
    /\ Truthy(c.params.svg) <=> read = NotRead
    /\ IF ~loaded.ok
       THEN /\ conv' = [conv EXCEPT ![i] = ConvThrow(c, loaded.message)]
            /\ UNCHANGED cacheVars
       ELSE /\ conv' = [conv EXCEPT ![i] =
                         IF Truthy(xml)
                         THEN maybeWriteOutput([keyed EXCEPT !.hit = TRUE, !.xml = xml])
                         ELSE [keyed EXCEPT !.pc = "convert", !.conversions = @ + 1]]
            /\ IF c.params.cache
               THEN HandlerGetCached(cacheKey)
               ELSE UNCHANGED cacheVars
    /\ UNCHANGED <<outputFile, adbVars, pureVars>>

\* Faulty variant: the result is cached before it is checked.
ConvertSettlesCachesFirst(i) ==
    LET c == conv[i]
        converted == svg2vectordrawable(c.svgCode[1], OptionsOf(c.params))
    IN
    /\ c.pc = "convert"
    /\ IF ~converted.ok
       THEN /\ conv' = [conv EXCEPT ![i] = ConvThrow(c, converted.message)]
            /\ UNCHANGED cacheVars
       ELSE /\ HandlerSetCache(c.cacheKey[1], converted.value[1])
            /\ conv' = [conv EXCEPT ![i] =
                         IF ~Truthy(converted.value) \/ converted.type # "string"
                         THEN ConvThrow(c, "Conversion did not produce XML")
                         ELSE maybeWriteOutput(
                                  [c EXCEPT !.xml = converted.value,
                                            !.stored = MapGet(conversionCache', c.cacheKey[1])])]
    /\ UNCHANGED <<outputFile, adbVars, pureVars>>

\* svg2vectordrawable settles (index.js:125-132): the result is checked and
\* cached, and the output is written when an output path is given.
ConvertSettles(i) ==
    LET c == conv[i]
        converted == svg2vectordrawable(c.svgCode[1], OptionsOf(c.params))
    IN
    /\ c.pc = "convert"
    /\ IF ~converted.ok
       THEN /\ conv' = [conv EXCEPT ![i] = ConvThrow(c, converted.message)]
            /\ UNCHANGED cacheVars
       ELSE IF ~Truthy(converted.value) \/ converted.type # "string"
       THEN /\ conv' = [conv EXCEPT ![i] = ConvThrow(c, "Conversion did not produce XML")]
            /\ UNCHANGED cacheVars
       ELSE /\ HandlerSetCache(c.cacheKey[1], converted.value[1])
            /\ conv' = [conv EXCEPT ![i] =
                         maybeWriteOutput([c EXCEPT !.xml = converted.value,
                                                    !.stored = MapGet(conversionCache', c.cacheKey[1])])]
    /\ UNCHANGED <<outputFile, adbVars, pureVars>>

\* The data of the logging message (index.js:140-142), the elapsed time aside.
LogData(savedPath) ==
    "Converted SVG in <elapsed>ms"
    \o (IF Truthy(savedPath) THEN " (saved to " \o savedPath[1] \o ")" ELSE "")

\* The response of the handler (index.js:151-157).
Content(savedPath, xml) ==
    (IF Truthy(savedPath) THEN <<"Saved VectorDrawable to " \o savedPath[1]>> ELSE <<>>)
    \o <<xml>>

\* The rest of the handler once maybeWriteOutput has returned (index.js:
\* 132-157): the logging message is handed to the server when the request
\* has a session (its promise is not awaited), and the content is returned.
Finish(c, savedPath) ==
    [c EXCEPT !.pc = "done", !.savedPath = savedPath,
              !.logged = IF IsSome(c.extra.sessionId) THEN Sent(LogData(savedPath)) ELSE None,
              !.outcome = Some([ok |-> TRUE, content |-> Content(savedPath, c.xml[1])])]

\* maybeWriteOutput without an output path returns null (index.js:92); the
\* handler goes on when its await has settled.
WriteSettles(i) ==
    /\ conv[i].pc = "write"
    /\ conv' = [conv EXCEPT ![i] = Finish(conv[i], None)]
    /\ UNCHANGED <<outputFile, cacheVars, adbVars, pureVars>>

\* The files, and what a write call does to one: each open file has a
\* position of its own, which starts at 0, so the bytes go over the start
\* of what the file holds.
FileWith(path, bytes) ==
    [f \in DOMAIN outputFile \cup {path} |-> IF f = path THEN bytes ELSE outputFile[f]]

\* fs.mkdir(dirname, {recursive: true}) settles (index.js:94): the directory
\* exists and fs.writeFile is called, which encodes the text and opens the
\* file, or the call fails.
MkdirSettles(i, made) ==
    LET c == conv[i]
        parts == NormalizeParts(SplitPath(c.resolvedPath[1]), <<>>)
        \* path.dirname(resolvedPath)
        dirname == "/" \o Join(SubSeq(parts, 1, Len(parts) - 1), "/")
    IN
    /\ c.pc = "mkdir"
    /\ conv' = [conv EXCEPT ![i] =
                  IF made THEN [c EXCEPT !.pc = "open", !.data = Utf8(c.xml[1])]
                  ELSE ConvThrow(c, "EACCES: permission denied, mkdir '"
                                    \o dirname \o "'")]
    /\ UNCHANGED <<outputFile, cacheVars, adbVars, pureVars>>

\* fs.writeFile (index.js:95) opens the file for writing: the file is
\* created or emptied, or the call fails.
FileOpens(i, opened) ==
    LET c == conv[i]
        resolvedPath == c.resolvedPath[1]
    IN
    /\ c.pc = "open"
    /\ IF opened
       THEN /\ conv' = [conv EXCEPT ![i] = [c EXCEPT !.pc = "writing"]]
            /\ outputFile' = FileWith(resolvedPath, <<>>)
       ELSE /\ conv' = [conv EXCEPT ![i] =
                         ConvThrow([c EXCEPT !.data = <<>>],
                                   "EACCES: permission denied, open '" \o resolvedPath \o "'")]
            /\ UNCHANGED outputFile
    /\ UNCHANGED <<cacheVars, adbVars, pureVars>>

\* A write call of fs.writeFile settles (index.js:95).  The call is given
\* what is left of the encoded text and writes at the position of the open
\* file: all of it, after which the file is closed; the first half of it
\* (only the first write of a file may), after which the rest is given to
\* another write call; or nothing, when the device fails, after which the
\* file is closed with the error kept.
\* A position beyond the end of the file leaves zero bytes between them.
FileWrites(i, part) ==
    LET c == conv[i]
        resolvedPath == c.resolvedPath[1]
        bytes == c.data
        remaining == SubSeq(bytes, c.position + 1, Len(bytes))
        written == CASE part = "all"  -> remaining
                     [] part = "half" -> SubSeq(remaining, 1, Len(remaining) \div 2)
                     [] part = "none" -> <<>>
        held == IF resolvedPath \in DOMAIN outputFile THEN outputFile[resolvedPath] ELSE <<>>
        before == IF Len(held) >= c.position THEN SubSeq(held, 1, c.position)
                  ELSE held \o [k \in 1..(c.position - Len(held)) |-> "[x00]"]
        overlaid == IF written = <<>> THEN held
                    ELSE before \o written
                         \o SubSeq(held, c.position + Len(written) + 1, Len(held))
    IN
    /\ c.pc = "writing"
    /\ part = "half" => c.position = 0 /\ Len(remaining) >= 2
    /\ conv' = [conv EXCEPT ![i] =
                  CASE part = "all"  -> [c EXCEPT !.pc = "close", !.position = Len(bytes)]
                    [] part = "half" -> [c EXCEPT !.position = @ + Len(written)]
                    [] part = "none" ->
                         [c EXCEPT !.pc = "close",
                                   !.writeError = Some("ENOSPC: no space left on device, write")]]
    /\ outputFile' = FileWith(resolvedPath, overlaid)
    /\ UNCHANGED <<cacheVars, adbVars, pureVars>>

\* fs.writeFile has closed the file and settles: with the error of the
\* write that failed, which the handler throws, or without one, and then
\* maybeWriteOutput returns the resolved path (index.js:96) and the handler
\* goes on with it.
FileCloses(i) ==
    LET c == conv[i]
        \* no file is open any more
        closed == [c EXCEPT !.data = <<>>, !.position = 0, !.writeError = None]
    IN
    /\ c.pc = "close"
    /\ conv' = [conv EXCEPT ![i] =
                  IF IsSome(c.writeError) THEN ConvThrow(closed, c.writeError[1])
                  ELSE Finish(closed, c.resolvedPath)]
    /\ UNCHANGED <<outputFile, cacheVars, adbVars, pureVars>>

\* The promise of sendLoggingMessage settles, with the message delivered or
\* not: the rejection is caught and nothing else happens.
ConvLogSettles(i, delivered) ==
    /\ IsSome(conv[i].logged) /\ conv[i].logged[1].state = "sent"
    /\ conv' = [conv EXCEPT ![i].logged = Some([@[1] EXCEPT !.state = IF delivered THEN "delivered"
                                                                    ELSE "failed"])]
    /\ UNCHANGED <<outputFile, cacheVars, adbVars, pureVars>>

ConvNext ==
    \/ \E i \in 1..MaxCalls, request \in ConvertRequests : StartConvert(i, request)
    \/ \E i \in 1..MaxCalls, read \in ReadResults \cup {NotRead} :
          LoadSettles(i, read)
    \/ \E i \in 1..MaxCalls : ConvertSettles(i)
    \/ \E i \in 1..MaxCalls : WriteSettles(i)
    \/ \E i \in 1..MaxCalls, made \in BOOLEAN : MkdirSettles(i, made)
    \/ \E i \in 1..MaxCalls, opened \in BOOLEAN : FileOpens(i, opened)
    \/ \E i \in 1..MaxCalls, part \in {"all", "half", "none"} : FileWrites(i, part)
    \/ \E i \in 1..MaxCalls : FileCloses(i)
    \/ \E i \in 1..MaxCalls, delivered \in BOOLEAN : ConvLogSettles(i, delivered)

(***************************************************************************)
(* logcatInputSchema (logcat tool module, lines 16-46): the arguments a    *)
(* client sends, any of them absent, and the params the handler is given,  *)
(* with the defaults filled in.  buildLogcatArgs is applied to the params  *)
(* and the pid the handler holds.                                          *)
(***************************************************************************)
LogcatArguments ==
    [packageName : {None, Some("com.app")},
     pid : {None, Some("777")},
     tag : {None, Some("MyTag")},
     priority : {None, Some("V"), Some("E")},
     maxLines : {None, Some(1), Some(2000)},
     timeoutMs : {None, Some(1000)}]

\* The values of the priority enum.
LogcatPriorities == {"V", "D", "I", "W", "E", "F", "S"}

\* Faulty variant: the priority has no default, and the template string
\* prints the missing one.
logcatInputSchemaNoDefault(arguments) ==
    Params(arguments.packageName, arguments.pid, arguments.tag,
           IF IsSome(arguments.priority) THEN arguments.priority[1] ELSE "undefined",
           IF IsSome(arguments.maxLines) THEN arguments.maxLines[1] ELSE 200,
           IF IsSome(arguments.timeoutMs) THEN arguments.timeoutMs[1] ELSE 5000)

logcatInputSchema(arguments) ==
    Params(arguments.packageName, arguments.pid, arguments.tag,
           IF IsSome(arguments.priority) THEN arguments.priority[1] ELSE "V",
           IF IsSome(arguments.maxLines) THEN arguments.maxLines[1] ELSE 200,
           IF IsSome(arguments.timeoutMs) THEN arguments.timeoutMs[1] ELSE 5000)

NotBuilt == [called |-> FALSE, arguments |-> [priority |-> None], params |-> IdleCall.params,
             pid |-> None, args |-> <<>>,
             shapes |-> {}]   \* history: <<a pid was given, a tag was given>> of the calls so far

\* buildLogcatArgs is applied to the params the schema gives for the
\* arguments, and to a pid or null: every pair of them, the pairs no handler
\* passes (neither a pid nor a tag, which the refinement excludes) included.
BuildLogcatArgs(arguments, pid) ==
    /\ built' = [called |-> TRUE, arguments |-> arguments,
                 params |-> logcatInputSchema(arguments), pid |-> pid,
                 args |-> buildLogcatArgs(logcatInputSchema(arguments), pid),
                 shapes |-> built.shapes \cup {<<IsSome(pid), IsSome(arguments.tag)>>}]
    /\ UNCHANGED <<keyCalls, estimate, cacheVars, adbVars, convVars>>

LogcatArgsNext ==
    \E arguments \in LogcatArguments, pid \in {None, Some("777"), Some("4821")} :
        BuildLogcatArgs(arguments, pid)

(***************************************************************************)
(* makeCacheKey applied to the text and the options of a request           *)
(* (index.js:109-116), one call after the other.                           *)
(***************************************************************************)
\* Two well-formed texts, and two texts that differ in a surrogate without
\* partner (JSON.parse gives such a text for "\ud800").
KeyTexts == {SvgText(1), SvgText(2), LoneSurrogateText(0), LoneSurrogateText(1)}
KeyOptions ==
    [floatPrecision : {0, 2}, fillBlack : BOOLEAN, xmlTag : BOOLEAN,
     tint : {None, Some("#FF000000"), Some("\"}\\")}]

MakeCacheKey(svg, options) ==
    /\ Len(keyCalls) < MaxKeyed
    /\ keyCalls' = Append(keyCalls, [svg |-> svg, options |-> options,
                               key |-> makeCacheKey(svg, options)])
    /\ UNCHANGED <<built, estimate, cacheVars, adbVars, convVars>>

CacheKeyNext == \E svg \in KeyTexts, options \in KeyOptions : MakeCacheKey(svg, options)

(***************************************************************************)
(* JavaScript numbers in the text-length tool (text-length tool module,    *)
(* lines 361-381): IEEE 754 binary64 values.  A positive value is a        *)
(* significand of 53 bits, kept as three limbs hi * 2^40 + mid * 2^20 + lo *)
(* with 2^12 <= hi < 2^13, times 2^e.  Division and multiplication round   *)
(* to the nearest value, ties to the even significand.                     *)
(***************************************************************************)
Limb == 1048576

\* The t with 2^t <= a / b < 2^(t + 1), for positive integers a and b.
Log2Floor(a, b) ==
    CHOOSE t \in -12..12 :
        IF t >= 0 THEN a >= b * 2^t /\ a < b * 2^(t + 1)
        ELSE a * 2^(-t) >= b /\ a * 2^(-t) < 2 * b

\* The next significand up.
SignificandUp(d) ==
    IF d.lo + 1 < Limb THEN [d EXCEPT !.lo = @ + 1]
    ELSE IF d.mid + 1 < Limb THEN [d EXCEPT !.lo = 0, !.mid = @ + 1]
    ELSE IF d.hi + 1 < 8192 THEN [d EXCEPT !.lo = 0, !.mid = 0, !.hi = @ + 1]
    ELSE [hi |-> 4096, mid |-> 0, lo |-> 0, e |-> d.e + 1]

\* Round to nearest, ties to even: guard is the first bit that was cut off,
\* sticky tells whether any later bit is set.
RoundNearestEven(d, guard, sticky) ==
    IF guard = 1 /\ (sticky \/ d.lo % 2 = 1) THEN SignificandUp(d) ELSE d

\* a / b for integers 0 < a, b < 1024 (delta / sourceLength, line 361).
Divide(a, b) ==
    LET t == Log2Floor(a, b)
        n0 == a * 2^(12 - t)
        r0 == n0 % b
        r1 == (r0 * Limb) % b
        r2 == (r1 * Limb) % b
    IN RoundNearestEven([hi |-> n0 \div b, mid |-> (r0 * Limb) \div b,
                         lo |-> (r1 * Limb) \div b, e |-> t - 52],
                        (2 * r2) \div b, (2 * r2) % b # 0)

\* d * 100 with every bit of the product: hi has up to 20 bits.
Hundredfold(d) ==
    LET p0 == d.lo * 100
        p1 == d.mid * 100 + p0 \div Limb
    IN [hi |-> d.hi * 100 + p1 \div Limb, mid |-> p1 % Limb, lo |-> p0 % Limb, e |-> d.e]

\* d * 100 (line 361): the product, rounded to 53 bits.
TimesHundred(d) ==
    LET p == Hundredfold(d)
        w == IF p.hi < 524288 THEN 64 ELSE 128
        up == Limb \div w
        cut == p.lo % w
    IN RoundNearestEven([hi |-> p.hi \div w,
                         mid |-> (p.hi % w) * up + p.mid \div w,
                         lo |-> (p.mid % w) * up + p.lo \div w,
                         e |-> p.e + (IF w = 64 THEN 6 ELSE 7)],
                        cut \div (w \div 2), cut % (w \div 2) # 0)

\* A number: its sign, and its magnitude when it is not zero.
\* (delta / sourceLength) * 100 (line 361)
PercentChange(delta, sourceLength) ==
    IF delta = 0 THEN [sign |-> 0]
    ELSE [sign |-> IF delta > 0 THEN 1 ELSE -1,
          abs |-> TimesHundred(Divide(IF delta > 0 THEN delta ELSE -delta, sourceLength))]

\* Math.abs(x) > n (line 363) for an integer n and 1 <= |x| < 2^13.
AbsGreater(x, n) ==
    IF x.sign = 0 THEN 0 > n
    ELSE LET f == 2^(-x.abs.e - 40)
             whole == x.abs.hi \div f
             fraction == x.abs.hi % f # 0 \/ x.abs.mid # 0 \/ x.abs.lo # 0
         IN whole > n \/ (whole = n /\ fraction)

\* x.toFixed(2) (line 381) for 1 <= |x| < 2^13: the integer n nearest to
\* |x| * 100, the larger of two nearest ones, printed with two decimals.
toFixed2(x) ==
    IF x.sign = 0 THEN "0.00"
    ELSE LET p == Hundredfold(x.abs)
             f == 2^(-p.e - 40)
             n == p.hi \div f + (IF f > 1 THEN (p.hi \div (f \div 2)) % 2 ELSE p.mid \div 524288)
         IN (IF x.sign < 0 THEN "-" ELSE "") \o ToString(n \div 100) \o "."
            \o (IF n % 100 < 10 THEN "0" ELSE "") \o ToString(n % 100)

(***************************************************************************)
(* estimate-text-length-difference (text-length tool module, lines         *)
(* 333-386).  A text is its sequence of UTF-16 code units: "a" for a unit  *)
(* that is a character, "H" and "L" for a high and a low surrogate.  The   *)
(* signs of the verdicts are written (warning) and (check), and the sign   *)
(* of the tolerance +/-.                                                   *)
(***************************************************************************)
\* lengthDiffInputSchema (lines 333-342): both texts have at least one unit;
\* tolerancePercent is between 1 and 500 and 30 when it is not given.
lengthDiffInputValid(arguments) ==
    /\ Len(arguments.sourceText) >= 1 /\ Len(arguments.translatedText) >= 1
    /\ IsSome(arguments.tolerancePercent) =>
         arguments.tolerancePercent[1] >= 1 /\ arguments.tolerancePercent[1] <= 500

lengthDiffInputSchema(arguments) ==
    [sourceText |-> arguments.sourceText, translatedText |-> arguments.translatedText,
     tolerancePercent |-> IF IsSome(arguments.tolerancePercent)
                          THEN arguments.tolerancePercent[1] ELSE 30]

\* measureLength (lines 344-346): Array.from iterates by code points, and a
\* high surrogate with the low surrogate after it is one code point.
measureLength(text) ==
    Len(text) - Cardinality({k \in 1..(Len(text) - 1) : text[k] = "H" /\ text[k + 1] = "L"})

BothEmpty == "(check) Both texts are empty; no length risk."
SourceEmpty == "(warning) Source length is 0; percent change undefined and translated text is present."
ExceedsTolerance == "(warning) Length difference exceeds tolerance (layout risk likely)."
WithinTolerance == "(check) Length difference within tolerance."

\* The handler (lines 357-386).
estimateTextLengthDifference(params) ==
    LET sourceLength == measureLength(params.sourceText)
        translatedLength == measureLength(params.translatedText)
        delta == translatedLength - sourceLength
        percentChange == IF sourceLength = 0 THEN None
                         ELSE Some(PercentChange(delta, sourceLength))
        exceeds == IF percentChange = None THEN translatedLength > 0
                   ELSE AbsGreater(percentChange[1], params.tolerancePercent)
        direction == IF delta = 0 THEN "no change" ELSE IF delta > 0 THEN "longer" ELSE "shorter"
        verdict == IF percentChange = None /\ translatedLength = 0 THEN BothEmpty
                   ELSE IF percentChange = None THEN SourceEmpty
                   ELSE IF exceeds THEN ExceedsTolerance
                   ELSE WithinTolerance
        summary == Join(<<verdict,
                          "Source length: " \o ToString(sourceLength),
                          "Translated length: " \o ToString(translatedLength),
                          IF percentChange = None
                          THEN "Change: N/A (source length is 0; direction: " \o direction \o ")"
                          ELSE "Change: " \o toFixed2(percentChange[1]) \o "% (" \o direction \o ")",
                          "Tolerance: +/-" \o ToString(params.tolerancePercent) \o "%">>, "\n")
    IN [called |-> TRUE, params |-> params,
        sourceLength |-> sourceLength, translatedLength |-> translatedLength,
        percentChange |-> percentChange, exceeds |-> exceeds, direction |-> direction,
        verdict |-> verdict, content |-> <<summary>>]

\* The texts of the requests: of every length, and with surrogates, paired
\* and alone.
LengthTexts ==
    {[k \in 1..n |-> "a"] : n \in 0..MaxTextLength}
    \cup {<<"H", "L">>, <<"a", "H", "L", "a">>, <<"L", "H">>, <<"H">>}

LengthArguments ==
    [sourceText : LengthTexts, translatedText : LengthTexts,
     tolerancePercent : {None, Some(0), Some(1), Some(110), Some(220), Some(500)}]


\* The protocol layer validates the arguments and calls the handler.  The
\* handler keeps nothing from one call to the next: a run is one call.
EstimateTextLengthDifference(arguments) ==
    /\ ~estimate.called
    /\ lengthDiffInputValid(arguments)
    /\ estimate' = estimateTextLengthDifference(lengthDiffInputSchema(arguments))
    /\ UNCHANGED <<built, keyCalls, cacheVars, adbVars, convVars>>

TextLengthNext == \E arguments \in LengthArguments : EstimateTextLengthDifference(arguments)

PureInit == built = NotBuilt /\ keyCalls = <<>> /\ estimate = [called |-> FALSE]

(***************************************************************************)
(* Specifications.  SpecCache: the cache under its two operations, from    *)
(* the empty cache or from a cache that 32 conversions have filled.        *)
(* SpecAdb: the adb tool calls and their child processes.  SpecAdbLive:    *)
(* the same with the fairness of the event loop.  SpecConvert: concurrent  *)
(* convert calls over a cache that is full at the start; SpecConvertFresh: *)
(* the same over the empty cache.  SpecLogcatArgs, SpecCacheKey:           *)
(* buildLogcatArgs and makeCacheKey on the inputs of their callers.        *)
(***************************************************************************)
SpecCacheInit == (\E prefill \in {0, MAX_CACHE_SIZE} : CacheInitOf(prefill)) /\ AdbInit /\ ConvInit /\ PureInit

SpecCache == SpecCacheInit /\ [][CacheNext]_vars

SpecAdbInit == AdbInit /\ CacheInit /\ ConvInit /\ PureInit

SpecAdb == SpecAdbInit /\ [][AdbNext]_vars

SpecAdbLive == SpecAdbInit /\ [][AdbLiveNext]_vars /\ AdbFairness

\* The convert calls of a server whose cache 32 conversions have filled.
SpecConvertInit == CacheInitOf(MAX_CACHE_SIZE) /\ AdbInit /\ ConvInit /\ PureInit

SpecConvert == SpecConvertInit /\ [][ConvNext]_vars

\* The convert calls of a server that has just been started.
SpecConvertFresh == SpecAdbInit /\ [][ConvNext]_vars

\* The tools of the three modules side by side.  index.js registers the
\* convert tool on its server; the logcat module and the text-length module
\* export a function that registers their tools on the server it is given,
\* and no module calls the function of another.  The modules share no
\* state, and a run is a run of the tools of one of them: calls of the adb
\* tools, or calls of the convert tool, or a text-length call.
ToolsNext ==
    \/ conv[1].pc = "idle" /\ ~estimate.called /\ AdbNext
    \/ call = IdleCall /\ inv = NoInvocation /\ ~estimate.called /\ ConvNext
    \/ call = IdleCall /\ inv = NoInvocation /\ conv[1].pc = "idle" /\ TextLengthNext

SpecTools == SpecAdbInit /\ [][ToolsNext]_vars

SpecLogcatArgs == SpecAdbInit /\ [][LogcatArgsNext]_vars

SpecCacheKey == SpecAdbInit /\ [][CacheKeyNext]_vars

SpecTextLength == SpecAdbInit /\ [][TextLengthNext]_vars


(***************************************************************************)
(* Claims about the convert handler, checked under SpecConvert.            *)
(***************************************************************************)

\* The XML text of a successful response: the last entry of its content.
ReturnedXml(c) == c.outcome[1].content[Len(c.outcome[1].content)]

\* What the call returns when it runs with cache=false: the conversion of
\* the text it loaded under its options.
RecomputedXml(c) == svg2vectordrawable(c.svgCode[1], OptionsOf(c.params))

\* C1: the XML text returned by every completed convert request, whether it
\* was served from the cache or converted, is the text the same request
\* returns with cache=false, which is the conversion of its SVG under its
\* options; what is written to the output path is that text too.
C1_CacheTransparent ==
    \A i \in 1..MaxCalls :
        (conv[i].pc = "done" /\ conv[i].outcome[1].ok) =>
            /\ RecomputedXml(conv[i]).ok
            /\ Truthy(RecomputedXml(conv[i]).value)
            /\ ReturnedXml(conv[i]) = RecomputedXml(conv[i]).value[1]

(***************************************************************************)
(* Claims about the conversion cache, checked under SpecCache.             *)
(***************************************************************************)

\* C2: in every reachable state the conversion cache holds at most
\* MAX_CACHE_SIZE (32) entries.
C2_CacheBounded == Len(conversionCache) <= MAX_CACHE_SIZE

\* A new key has just been set into a cache that held 32 entries.
C2_Witness ==
    /\ lastCall.op = "setCache" /\ lastCall.sizeBefore = MAX_CACHE_SIZE /\ ~lastCall.hadKey
    /\ Len(conversionCache) = MAX_CACHE_SIZE

\* C3 as stated: after a getCached hit followed by setCache of 32 distinct
\* never-cached keys (and nothing else), the key that was hit is still cached.
C3_Original ==
    (IsSome(afterHit.key) /\ afterHit.fresh = MAX_CACHE_SIZE)
        => MapHas(conversionCache, afterHit.key[1])

\* C3 amended: after a getCached hit followed by setCache of at most 31
\* (capacity - 1) distinct never-cached keys (and nothing else), the key that
\* was hit is still cached.
C3_Freshness ==
    (IsSome(afterHit.key) /\ afterHit.fresh <= MAX_CACHE_SIZE - 1)
        => MapHas(conversionCache, afterHit.key[1])

\* The hit key has survived 31 fresh keys and is now the oldest entry of a full cache.
C3_Witness ==
    /\ IsSome(afterHit.key) /\ afterHit.fresh = MAX_CACHE_SIZE - 1
    /\ Len(conversionCache) = MAX_CACHE_SIZE
    /\ conversionCache[1].key = afterHit.key[1]

\* C4: a setCache call removes an entry only when the cache held 32 entries
\* and the written key was absent, and then exactly the least recently used
\* one; an overwrite of a present key removes nothing and keeps the count.
C4_EvictOnlyForNewKey ==
    lastCall.op = "setCache" =>
        /\ lastCall.removed # {} =>
              /\ lastCall.sizeBefore = MAX_CACHE_SIZE
              /\ ~lastCall.hadKey
              /\ lastCall.removed = {lastCall.lru[1]}
        /\ lastCall.hadKey =>
              /\ lastCall.removed = {}
              /\ Len(conversionCache) = lastCall.sizeBefore

\* C5: whenever setCache evicts, the evicted key is the cached key whose most
\* recent read (getCached hit) or write (setCache, overwrites included) is the
\* oldest.
C5_EvictsLeastRecentlyUsed ==
    (lastCall.op = "setCache" /\ lastCall.removed # {})
        => lastCall.removed = {lastCall.lru[1]}

\* C6: getCached on a cached key returns the stored value and moves the entry
\* to the end of the order, the other entries keeping their keys, values and
\* relative order; on an absent key it returns null and changes nothing.
C6_GetCachedFrame ==
    [][lastCall'.op = "getCached" =>
        LET key == lastCall'.key
            at == {i \in 1..Len(conversionCache) : conversionCache[i].key = key}
            others == SelectSeq(conversionCache, LAMBDA e : e.key # key)
        IN IF at # {}
           THEN \E i \in at :
                  /\ lastCall'.ret = Some(conversionCache[i].value)
                  /\ conversionCache' = others \o <<conversionCache[i]>>
           ELSE /\ lastCall'.ret = None
                /\ conversionCache' = conversionCache
    ]_cacheVars

\* getCached has just hit the entry that was the oldest of a full cache.
C6_Witness ==
    /\ lastCall.op = "getCached" /\ IsSome(lastCall.ret)
    /\ lastCall.lru = Some(lastCall.key)
    /\ Len(conversionCache) = MAX_CACHE_SIZE
    /\ conversionCache[MAX_CACHE_SIZE].key = lastCall.key

\* C7: from the empty cache, after setCache of 33 pairwise distinct keys and
\* nothing else, the first key is absent, the 32 others are cached and the
\* cache holds exactly 32 entries.
C7_CapacityPlusOne ==
    (insertRun.ok /\ Len(insertRun.keys) = MAX_CACHE_SIZE + 1) =>
        /\ ~MapHas(conversionCache, insertRun.keys[1])
        /\ \A i \in 2..(MAX_CACHE_SIZE + 1) : MapHas(conversionCache, insertRun.keys[i])
        /\ Len(conversionCache) = MAX_CACHE_SIZE

\* The run from the empty cache has just set its 33rd distinct key.
C7_Witness ==
    /\ insertRun.ok /\ Len(insertRun.keys) = MAX_CACHE_SIZE + 1
    /\ Cardinality({insertRun.keys[i] : i \in 1..Len(insertRun.keys)}) = MAX_CACHE_SIZE + 1

(***************************************************************************)
(* Claims about the process invoker and the adb tools, checked under       *)
(* SpecAdb.                                                                *)
(***************************************************************************)
CallDone == call.pc = "done"
Failed(c) == IsSome(c.outcome) /\ ~c.outcome[1].ok
NotFoundMessages == {"Could not resolve pid for package com.app"}

\* An adb invocation of the call has failed: execFile rejected (adb could not
\* be started, the child closed with a status other than 0 or was killed, or
\* its output went over maxBuffer), or the timeout expired before the child
\* had closed.
InvocationFailed(c) == c.failures # <<>> \/ c.timedOut

\* C8: every tool call in which an adb invocation fails (cannot start,
\* non-zero exit, timeout) ends in the tool's error outcome carrying that
\* invocation's failure message unchanged; no handler turns an invocation
\* failure into a successful text response, and a finished call has one
\* outcome, a text or one error.
C8_FailurePropagates ==
    CallDone =>
        /\ IsSome(call.outcome)
        /\ InvocationFailed(call) => Failed(call)
        /\ call.failures # <<>> =>
              /\ Len(call.failures) = 1
              /\ Failed(call) => call.outcome[1].error = call.failures[1]

\* The message the claim prescribes for a failed invocation.
RECURSIVE SpaceBefore(_)
SpaceBefore(args) == IF args = <<>> THEN "" ELSE " " \o Head(args) \o SpaceBefore(Tail(args))

PrescribedMessage(args, error) ==
    LET kept == Flat(trim(error.stderr[1])) IN
    "adb" \o SpaceBefore(args) \o " failed" \o ": " \o error.message
    \o (IF kept # "" THEN " | stderr: " \o kept ELSE "")

\* C9: the message of a failing runAdbCommand is "adb", the arguments in order
\* separated by single spaces, " failed", ": " and the failure description,
\* then " | stderr: " and the trimmed error stream exactly when that is
\* non-empty; the captured output is no part of it.
C9_FailureMessage ==
    ~lastRun.ok =>
        /\ ~lastRun.ran.ok
        /\ lastRun.ran.message = PrescribedMessage(lastRun.args, lastRun.exec.error)
        /\ DOMAIN lastRun.ran = {"ok", "message"}

\* A log dump with a pid filter failed after writing output and an error
\* stream that has white space around its text.
C9_Witness ==
    /\ ~lastRun.ok
    /\ Len(lastRun.args) > 4
    /\ lastRun.exec.error.stdout # Some(<<>>)
    /\ trim(lastRun.exec.error.stderr[1]) # <<>>
    /\ trim(lastRun.exec.error.stderr[1]) # lastRun.exec.error.stderr[1]

\* C10: every runAdbCommand call completes; a child that is still running when
\* the timeout expires is terminated and its call fails; no child of a
\* completed call is alive.  (execFile sends SIGTERM once at the timeout and
\* waits for the child to close: a child that ignores the signal keeps the
\* call pending, and one that then closes with status 0 makes it succeed.)
C10_Completes ==
    /\ \A n \in 1..3 :
         (inv.state # "none" /\ inv.seq = n) ~> (inv.state = "none" \/ inv.seq # n)
    /\ [][inv.state = "signalled" /\ inv'.state # "signalled"
             => ~lastRun'.ok /\ children' = children - 1]_vars
    /\ [](children = IF inv.state \in {"running", "signalled"} THEN 1 ELSE 0)

\* The first maximal run of characters of a text that are not white space:
\* only white space is before it, and white space or the end is after it.
IsFirstRun(t, w) ==
    \E i \in 1..Len(t), j \in 1..Len(t) :
        /\ i <= j
        /\ \A k \in 1..(i - 1) : IsSpace(t[k])
        /\ \A k \in i..j : ~IsSpace(t[k])
        /\ j = Len(t) \/ IsSpace(t[j + 1])
        /\ w = Flat(SubSeq(t, i, j))

Blank(t) == \A k \in 1..Len(t) : IsSpace(t[k])

\* The last invocation that settled is the pid lookup of the running call.
LookupSettled ==
    /\ IsSome(call.params.packageName)
    /\ lastRun.args = <<"shell", "pidof", "-s", call.params.packageName[1]>>

\* C11: once the pid lookup of a call has settled, the pid the call holds is
\* the first maximal run of non-white-space characters of the lookup's
\* output; the call fails with 'Could not resolve pid for package <name>'
\* exactly when the lookup succeeded with an output that has no such
\* character; and a failed lookup fails the call with the invocation's
\* message.
C11_ResolvePid ==
    LookupSettled =>
        IF ~lastRun.ok
        THEN /\ Failed(call) /\ call.outcome[1].error = lastRun.ran.message
             /\ call.outcome[1].error \notin NotFoundMessages
        ELSE IF Blank(lastRun.exec.stdout)
        THEN /\ Failed(call)
             /\ call.outcome[1].error
                  = "Could not resolve pid for package " \o call.params.packageName[1]
        ELSE /\ ~Failed(call)
             /\ IsSome(call.pid) /\ IsFirstRun(lastRun.exec.stdout, call.pid[1])

\* The lookup printed the pid with white space before and after it, and the
\* call holds the pid alone.
C11_Witness ==
    /\ LookupSettled /\ lastRun.ok
    /\ lastRun.exec.stdout = <<" ", " ", "4821", " ", "\n">>
    /\ call.pid = Some("4821")

(***************************************************************************)
(* Claims about buildLogcatArgs, checked under SpecLogcatArgs.             *)
(***************************************************************************)

\* C12: the argument list buildLogcatArgs returns is 'logcat', '-d', '-t' and
\* the line count as a string, then '--pid=<pid>' exactly when a pid is
\* present, then '-s' and '<tag>:<priority>' exactly when a tag is present,
\* and nothing else, for each of the four combinations of a pid and a tag.
C12_ArgsShape ==
    built.called =>
        LET args == built.args
            hasPid == IsSome(built.pid)
            hasTag == IsSome(built.params.tag)
        IN /\ Len(args) = 4 + (IF hasPid THEN 1 ELSE 0) + (IF hasTag THEN 2 ELSE 0)
           /\ args[1] = "logcat" /\ args[2] = "-d" /\ args[3] = "-t"
           /\ args[4] = ToString(built.params.maxLines)
           /\ hasPid => args[5] = "--pid=" \o built.pid[1]
           /\ hasTag => /\ args[Len(args) - 1] = "-s"
                        /\ args[Len(args)] = built.params.tag[1] \o ":" \o built.params.priority

\* Lists have been built for all four combinations of a pid and a tag, the
\* last of them with neither: it has the four fixed elements only.
C12_Witness ==
    /\ built.called /\ built.shapes = BOOLEAN \X BOOLEAN
    /\ ~IsSome(built.pid) /\ ~IsSome(built.params.tag)
    /\ built.args = <<"logcat", "-d", "-t", ToString(built.params.maxLines)>>

\* C13: when the client gives a tag and no priority, the scoping token is
\* '<tag>:V'; with a tag, the priority of the token is always one of the
\* enum's values.
C13_DefaultPriority ==
    (built.called /\ IsSome(built.arguments.tag)) =>
        /\ ~IsSome(built.arguments.priority)
             => built.args[Len(built.args)] = built.arguments.tag[1] \o ":V"
        /\ \E priority \in LogcatPriorities :
             built.args[Len(built.args)] = built.arguments.tag[1] \o ":" \o priority

\* The client gave a tag and no priority, and the token is 'MyTag:V'.
C13_Witness ==
    /\ built.called /\ built.arguments.tag = Some("MyTag")
    /\ built.arguments.priority = None
    /\ built.args[Len(built.args)] = "MyTag:V"

(***************************************************************************)
(* Claims about makeCacheKey, checked under SpecCacheKey.                  *)
(***************************************************************************)

\* The option values in which two calls differ.
OptionDifferences(a, b) ==
    {f \in {"floatPrecision", "fillBlack", "xmlTag", "tint"} : a.options[f] # b.options[f]}

\* C14: two calls of makeCacheKey, whatever was called before them, return
\* the same key when their texts and their option values are equal, and
\* different keys when the texts differ or any option value differs (a tint
\* that is absent differs from every tint that is present).
C14_KeyIdentifiesInput ==
    \A i, j \in 1..Len(keyCalls) :
        (keyCalls[i].key = keyCalls[j].key)
            <=> (/\ keyCalls[i].svg = keyCalls[j].svg
                 /\ OptionDifferences(keyCalls[i], keyCalls[j]) = {})

(***************************************************************************)
(* Claims about the responses of the tools, checked under SpecTools and   *)
(* SpecAdb.                                                                *)
(***************************************************************************)
Succeeded(c) == IsSome(c.outcome) /\ c.outcome[1].ok

\* The last invocation that settled succeeded and wrote nothing but white space.
EmptyRun == lastRun.ok /\ lastRun.args # <<>> /\ Blank(lastRun.exec.stdout)

\* The characters of name occur one after the other in the text t.
Mentions(t, name) ==
    LET s == Flat(t)
    IN \E k \in 1..Len(s) :
           k + Len(name) - 1 <= Len(s) /\ SubSeq(s, k, k + Len(name) - 1) = name

\* No line of the last invocation's output names the focus.
NoFocusLine ==
    \A name \in {"mCurrentFocus", "mFocusedApp"} : ~Mentions(lastRun.exec.stdout, name)

\* C15: the text of every successful response of an adb tool, and every text
\* block of a successful response of the convert tool and of the text-length
\* tool, is non-empty.
\* When the dump is empty, read-adb-logcat and fetch-crash-stacktrace return
\* their placeholder; when no line of the dump is kept, get-current-activity
\* returns its placeholder; check-anr-state puts a placeholder in the place
\* of an empty ActivityManager dump and of an empty tail.
C15_NoEmptyText ==
    /\ (CallDone /\ Succeeded(call)) =>
         /\ call.outcome[1].text # ""
         /\ (call.tool = "read-adb-logcat" /\ EmptyRun)
              => call.outcome[1].text = "Logcat returned no lines."
         /\ (call.tool = "fetch-crash-stacktrace" /\ EmptyRun)
              => call.outcome[1].text = "No crash entries found."
         /\ (call.tool = "get-current-activity" /\ (EmptyRun \/ NoFocusLine))
              => call.outcome[1].text = "No focus info found in dumpsys window."
         /\ (call.tool = "check-anr-state" /\ EmptyRun)
              => call.sections[3] = "traces.txt tail: empty."
    /\ (call.tool = "check-anr-state" /\ call.pc = "stat" /\ EmptyRun)
         => call.sections[1] = "ActivityManager (recent): no entries."
    /\ \A i \in 1..MaxCalls :
         (conv[i].pc = "done" /\ conv[i].outcome[1].ok) =>
             /\ conv[i].outcome[1].content # <<>>
             /\ \A k \in 1..Len(conv[i].outcome[1].content) : conv[i].outcome[1].content[k] # ""
    /\ estimate.called =>
         /\ estimate.content # <<>>
         /\ \A k \in 1..Len(estimate.content) : estimate.content[k] # ""

\* fetch-crash-stacktrace resolved the pid, its dump printed a lone newline,
\* and the response is the placeholder.
C15_Witness ==
    /\ CallDone /\ Succeeded(call) /\ call.tool = "fetch-crash-stacktrace"
    /\ Len(call.started) = 2
    /\ lastRun.ok /\ lastRun.exec.stdout = <<"\n">>
    /\ call.outcome[1].text = "No crash entries found."

\* v is t without its trailing white space: t begins with v, only white space
\* follows, and v does not end in white space.
IsTrimmedEnd(t, v) ==
    /\ Len(v) <= Len(t)
    /\ v = SubSeq(t, 1, Len(v))
    /\ \A k \in (Len(v) + 1)..Len(t) : IsSpace(t[k])
    /\ v = <<>> \/ ~IsSpace(v[Len(v)])

\* C16: a runAdbCommand whose child exits successfully returns a value, the
\* output without its trailing white space and with its leading white space,
\* which is the empty string for an empty or white-space-only output; a
\* runAdbCommand whose invocation fails returns no value and throws.
C16_EmptyIsNotFailure ==
    lastRun.args # <<>> =>
        IF lastRun.ok
        THEN /\ lastRun.ran.ok
             /\ DOMAIN lastRun.ran = {"ok", "value"}
             /\ IsTrimmedEnd(lastRun.exec.stdout, lastRun.ran.value)
             /\ Blank(lastRun.exec.stdout) => Flat(lastRun.ran.value) = ""
        ELSE /\ ~lastRun.ran.ok
             /\ "value" \notin DOMAIN lastRun.ran

\* clear-logcat-buffer's child exited successfully and wrote nothing: the
\* call returned the empty string and the tool succeeded.
C16_Witness ==
    /\ lastRun.args = <<"logcat", "-c">> /\ lastRun.ok
    /\ lastRun.exec.stdout = <<>> /\ lastRun.ran = [ok |-> TRUE, value |-> <<>>]
    /\ CallDone /\ Succeeded(call)

(***************************************************************************)
(* Claims about the logging message, checked under SpecTools.             *)
(***************************************************************************)

\* The result of read-adb-logcat by its request and its invocations alone.
LogcatResult ==
    IF ~lastRun.ok THEN [ok |-> FALSE, error |-> lastRun.ran.message]
    ELSE IF LookupSettled
    THEN [ok |-> FALSE,
          error |-> "Could not resolve pid for package " \o call.params.packageName[1]]
    ELSE IF Blank(lastRun.exec.stdout) THEN [ok |-> TRUE, text |-> "Logcat returned no lines."]
    ELSE [ok |-> TRUE, text |-> Flat(lastRun.ran.value)]

\* The successful result of a convert call by its request and its XML alone.
ConvertResult(c) ==
    [ok |-> TRUE,
     content |-> (IF IsSome(c.params.outputPath)
                  THEN <<"Saved VectorDrawable to " \o PathResolve(c.params.outputPath[1])>>
                  ELSE <<>>) \o <<c.xml[1]>>]

\* A logging message exists only for a request with a session whose handler
\* has returned successfully.
LogOnlyAfterResult ==
    /\ IsSome(call.log) => IsSome(call.extra.sessionId) /\ CallDone /\ Succeeded(call)
    /\ \A i \in 1..MaxCalls :
         IsSome(conv[i].logged) =>
             /\ IsSome(conv[i].extra.sessionId)
             /\ conv[i].pc = "done" /\ conv[i].outcome[1].ok

\* The settling of a logging promise changes nothing but the message's state.
LogSettlingIsSilent ==
    /\ (IsSome(call.log) /\ IsSome(call'.log) /\ call'.log # call.log)
         => /\ call' = [call EXCEPT !.log = call'.log]
            /\ UNCHANGED <<inv, children, lastRun, conv, outputFile, conversionCache>>
    /\ \A i \in 1..MaxCalls :
         (IsSome(conv[i].logged) /\ conv'[i].logged # conv[i].logged)
            => /\ conv' = [conv EXCEPT ![i].logged = conv'[i].logged]
               /\ UNCHANGED <<call, inv, children, lastRun, outputFile, conversionCache>>

\* C17: the response or error of read-adb-logcat and of the convert tool is
\* determined by the request and the adb or conversion outcomes, whether the
\* request has a session or not and whether the logging message is pending,
\* delivered or failed; the message is sent in the step in which the handler
\* returns, which does not wait for it; and the settling of the message
\* changes nothing else.
C17_LogIsBestEffort ==
    /\ []((CallDone /\ call.tool = "read-adb-logcat") => call.outcome[1] = LogcatResult)
    /\ [](\A i \in 1..MaxCalls :
            conv[i].pc = "done" /\ conv[i].outcome[1].ok
                => conv[i].outcome[1] = ConvertResult(conv[i]))
    /\ []LogOnlyAfterResult
    /\ [][LogSettlingIsSilent]_vars

\* read-adb-logcat has responded with the dump to a request with a session,
\* and the delivery of its logging message has failed.
C17_Witness ==
    /\ CallDone /\ call.tool = "read-adb-logcat" /\ Succeeded(call)
    /\ call.log # None /\ call.log[1].state = "failed"
    /\ call.outcome[1].text = Flat(lastRun.ran.value)

(***************************************************************************)
(* Claims about the order of the invocations of a call, checked under      *)
(* SpecAdb.                                                                *)
(***************************************************************************)

\* A call of read-adb-logcat or fetch-crash-stacktrace with a package name
\* and no explicit pid.
ResolvingCall ==
    /\ call.tool \in {"read-adb-logcat", "fetch-crash-stacktrace"}
    /\ IsSome(call.params.packageName) /\ ~IsSome(call.params.pid)

\* The '--pid=' arguments of an argument list.
PidArguments(args, pid) == {k \in 1..Len(args) : args[k] = "--pid=" \o pid}

\* C18: in such a call the first invocation is the pid lookup; the log dump
\* is started only once the lookup has returned a pid, and its '--pid='
\* argument carries that pid; when the lookup fails or prints no pid, the call
\* has started nothing else and has failed with the lookup's error.
C18_LookupBeforeDump ==
    ResolvingCall =>
        /\ Len(call.started) \in {1, 2}
        /\ call.started[1] = <<"shell", "pidof", "-s", call.params.packageName[1]>>
        /\ Len(call.started) = 2 =>
             /\ call.started[2][1] = "logcat"
             /\ IsSome(call.pid)
             /\ PidArguments(call.started[2], call.pid[1])
                  = {IF call.tool = "read-adb-logcat" THEN 5 ELSE 7}
             /\ call.pc = "dump" =>
                  /\ LookupSettled /\ lastRun.ok
                  /\ IsFirstRun(lastRun.exec.stdout, call.pid[1])
                  /\ inv.args = call.started[2]
        /\ (LookupSettled /\ (~lastRun.ok \/ Blank(lastRun.exec.stdout))) =>
             /\ Len(call.started) = 1 /\ inv.state = "none"
             /\ CallDone /\ Failed(call)
             /\ call.outcome[1].error =
                  IF ~lastRun.ok THEN lastRun.ran.message
                  ELSE "Could not resolve pid for package " \o call.params.packageName[1]

\* fetch-crash-stacktrace looked the pid up, and its dump is running with the
\* pid the lookup printed.
C18_Witness ==
    /\ ResolvingCall /\ call.tool = "fetch-crash-stacktrace"
    /\ call.pc = "dump" /\ inv.state = "running"
    /\ lastRun.exec.stdout = <<" ", " ", "4821", " ", "\n">>
    /\ inv.args = <<"logcat", "-b", "crash", "-d", "-t", "400", "--pid=4821">>

(***************************************************************************)
(* Claims about concurrent convert calls, checked under SpecConvert.       *)
(***************************************************************************)

\* The options of a request, field by field.
OwnOptions(c) ==
    [floatPrecision |-> c.params.floatPrecision, fillBlack |-> c.params.fillBlack,
     xmlTag |-> c.params.xmlTag, tint |-> c.params.tint]

\* Every text and every options object a run can present, and the cache
\* entry of each pair that converts to XML.
PresentedTexts ==
    {SvgText(n) : n \in (1 - MAX_CACHE_SIZE)..2} \cup {NotSvg, Malformed, Unsupported}
    \cup {LoneSurrogateText(0), LoneSurrogateText(1)}
PresentedOptions == {DefaultOptions, TintedOptions}
RightEntries ==
    LET pairs == {p \in PresentedTexts \X PresentedOptions :
                     /\ svg2vectordrawable(p[1], p[2]).ok
                     /\ svg2vectordrawable(p[1], p[2]).type = "string"
                     /\ svg2vectordrawable(p[1], p[2]).value \notin {None, Some("")}}
    IN {[key |-> makeCacheKey(p[1], p[2]),
         value |-> svg2vectordrawable(p[1], p[2]).value[1]] : p \in pairs}

\* C19: at every point of every interleaving of the convert calls, each cache
\* entry holds under its key the non-empty conversion of the text and options
\* the key was made from, and each call that holds or has returned XML holds
\* the conversion of its own text under its own options.
C19_NoCrossTalk ==
    /\ \A k \in 1..Len(conversionCache) : conversionCache[k] \in RightEntries
    /\ \A i \in 1..MaxCalls :
         IsSome(conv[i].xml) =>
             /\ conv[i].xml # Some("")
             /\ conv[i].xml = svg2vectordrawable(conv[i].svgCode[1], OwnOptions(conv[i])).value
             /\ (conv[i].pc = "done" /\ conv[i].outcome[1].ok)
                  => ReturnedXml(conv[i]) = conv[i].xml[1]

\* The calls that have reached the cache lookup.
LookedUp(c) == IsSome(c.cacheKey)

\* C20: a cache=true call whose key was cached at the lookup does not call
\* the conversion function and returns the cached text; every other call
\* that reaches the lookup calls the conversion function exactly once, and
\* when that succeeds the result is in the cache under the key as soon as
\* the handler has stored it.
C20_ConvertOnMiss ==
    \A i \in 1..MaxCalls :
        LookedUp(conv[i]) =>
            IF conv[i].params.cache /\ IsSome(conv[i].found)
            THEN /\ conv[i].conversions = 0
                 /\ conv[i].xml = conv[i].found
                 /\ (conv[i].pc = "done" /\ conv[i].outcome[1].ok)
                      => ReturnedXml(conv[i]) = conv[i].found[1]
            ELSE /\ conv[i].conversions = 1
                 /\ IsSome(conv[i].xml) => conv[i].stored = conv[i].xml
                 /\ (conv[i].pc = "done" /\ conv[i].outcome[1].ok) => IsSome(conv[i].stored)

\* A cache=false call whose key was cached at the lookup has converted once,
\* stored its result and returned it.
C20_Witness ==
    \E i \in 1..MaxCalls :
        /\ conv[i].pc = "done" /\ conv[i].outcome[1].ok
        /\ ~conv[i].params.cache /\ IsSome(conv[i].found)
        /\ conv[i].conversions = 1 /\ conv[i].stored = conv[i].xml

(***************************************************************************)
(* Claims about a conversion that produces no XML, checked under           *)
(* SpecConvert.                                                            *)
(***************************************************************************)

\* The text a call converts, once the call holds it: the inline markup of
\* the request, or the text read from the file.
TextOf(c) ==
    IF Truthy(c.params.svg) THEN c.params.svg ELSE c.svgCode

\* What the conversion function gives for the text of a call.
Conversion(c) == svg2vectordrawable(TextOf(c)[1], OwnOptions(c))

\* The calls in flight or finished whose conversion does not produce XML.
ConversionFails(c) ==
    /\ c.pc # "idle" /\ IsSome(TextOf(c))
    /\ \/ ~Conversion(c).ok
       \/ ~Truthy(Conversion(c).value)
       \/ Conversion(c).type # "string"

\* The error such a call ends in.
ConversionError(c) ==
    IF Conversion(c).ok THEN "Conversion did not produce XML" ELSE Conversion(c).message

\* A call whose conversion fails never holds XML, never reaches the write,
\* and ends in the error, with no saved path and nothing cached by it.
FailsWithoutXml ==
    \A i \in 1..MaxCalls :
        ConversionFails(conv[i]) =>
            /\ conv[i].pc \in {"load", "convert", "done"}
            /\ conv[i].xml = None /\ conv[i].savedPath = None /\ conv[i].stored = None
            /\ conv[i].found = None /\ ~conv[i].hit
            /\ conv[i].pc = "done" =>
                 conv[i].outcome = Some([ok |-> FALSE, error |-> ConversionError(conv[i])])

\* No step of such a call changes the cache or the output file.
FailingStepsChangeNothing ==
    \A i \in 1..MaxCalls :
        (conv'[i] # conv[i] /\ ConversionFails(conv'[i]))
            => /\ conversionCache' = conversionCache
               /\ accessOrder' = accessOrder
               /\ outputFile' = outputFile

\* C21: a convert call whose conversion function returns a value that is no
\* string or is empty, or throws, fails with an error, 'Conversion did not
\* produce XML' for the value that is no string or is empty; none of its
\* steps changes the keys, values or order of the cache, and it writes no
\* output file.
C21_FailureLeavesNoTrace ==
    /\ []FailsWithoutXml
    /\ [][FailingStepsChangeNothing]_vars

\* Two cache=true calls with an output path have failed, one on an object
\* the conversion returned and one on the empty string: nothing is cached
\* and no file exists.
C21_Witness ==
    \E i, j \in 1..MaxCalls :
        /\ conv[i].pc = "done" /\ conv[i].params.cache /\ Truthy(conv[i].params.outputPath)
        /\ Conversion(conv[i]).ok /\ Conversion(conv[i]).type = "object"
        /\ Truthy(Conversion(conv[i]).value)
        /\ conv[i].outcome = Some([ok |-> FALSE, error |-> "Conversion did not produce XML"])
        /\ conv[j].pc = "done" /\ conv[j].params.cache /\ Truthy(conv[j].params.outputPath)
        /\ Conversion(conv[j]).ok /\ Conversion(conv[j]).value = Some("")
        /\ conv[j].outcome = Some([ok |-> FALSE, error |-> "Conversion did not produce XML"])
        /\ conv[i].conversions = 1 /\ conv[j].conversions = 1
        /\ conversionCache = <<>> /\ outputFile = <<>>

(***************************************************************************)
(* Claims about read-adb-logcat with an explicit pid, checked under        *)
(* SpecAdb.                                                                *)
(***************************************************************************)

\* The read-adb-logcat calls whose request gives a pid.
ExplicitPidCall ==
    /\ call.pc # "idle" /\ call.tool = "read-adb-logcat" /\ Truthy(call.params.pid)

\* The invocations of a call that are pid lookups.
Lookups(c) == {k \in 1..Len(c.started) : "pidof" \in {c.started[k][n] : n \in 1..Len(c.started[k])}}

\* C22: a read-adb-logcat call whose request gives a pid starts exactly one
\* adb invocation, the log dump, whose only '--pid=' argument carries the
\* pid of the request, and no pid lookup, whether the request names a
\* package or not; at most one child process is alive for it.
C22_ExplicitPidSkipsLookup ==
    ExplicitPidCall =>
        /\ Len(call.started) = 1 /\ Lookups(call) = {}
        /\ call.started[1] =
             <<"logcat", "-d", "-t", ToString(call.params.maxLines),
               "--pid=" \o call.params.pid[1]>>
             \o (IF Truthy(call.params.tag)
                 THEN <<"-s", call.params.tag[1] \o ":" \o call.params.priority>>
                 ELSE <<>>)
        /\ PidArguments(call.started[1], call.params.pid[1]) = {5}
        /\ call.pid = call.params.pid
        /\ inv.seq <= 1 /\ children <= 1
        /\ inv.state # "none" => inv.args = call.started[1] /\ inv.seq = 1
        /\ lastRun.args # <<>> => lastRun.args = call.started[1]
        /\ inv.state \in {"running", "signalled"} => children = 1

\* A request with both a package name and a pid has been answered with the
\* dump of the one process that was started for it.
C22_Witness ==
    /\ ExplicitPidCall /\ Truthy(call.params.packageName)
    /\ CallDone /\ Succeeded(call)
    /\ call.started = <<<<"logcat", "-d", "-t", "200", "--pid=777">>>>
    /\ lastRun.args = call.started[1] /\ ~Blank(lastRun.exec.stdout)

(***************************************************************************)
(* Claims about check-anr-state, checked under SpecAdb.                    *)
(***************************************************************************)

AnrCall == call.pc # "idle" /\ call.tool = "check-anr-state"

\* The three invocations of check-anr-state, in their order.
AnrInvocations(maxLines) ==
    << <<"logcat", "-d", "-t", ToString(maxLines), "ActivityManager:E", "*:S">>,
       <<"shell", "ls", "-l", "/data/anr/traces.txt">>,
       <<"shell", "tail", "-n", "200", "/data/anr/traces.txt">> >>

\* The section of the k-th invocation when it has failed with a message.
FailureSection(k, message) ==
    <<"ActivityManager: ", "traces.txt stat: ", "traces.txt tail: ">>[k] \o message

\* The section of the k-th invocation when it has printed a text.
OutputSection(k, text) ==
    IF k = 2 THEN "traces.txt stat:\n" \o text
    ELSE IF text = ""
    THEN <<"ActivityManager (recent): no entries.", "", "traces.txt tail: empty.">>[k]
    ELSE <<"ActivityManager (recent):\n", "", "traces.txt tail (200 lines):\n">>[k] \o text

\* The sections that report a failure, in their order.
FailureSections(c) ==
    SelectSeq([k \in 1..Len(c.sections) |-> [k |-> k, text |-> c.sections[k]]],
              LAMBDA e : \E n \in 1..Len(c.failures) :
                            e.text = FailureSection(e.k, c.failures[n]))

\* The invocations are started one at a time in the fixed order, each when
\* the one before has completed, failed or not; each completed invocation
\* has its section; the call ends only after the third, and successfully.
AnrInOrder ==
    AnrCall =>
        LET n == Len(call.started) IN
        /\ n \in 1..3
        /\ call.started = SubSeq(AnrInvocations(call.params.maxLines), 1, n)
        /\ children <= 1
        /\ IF CallDone
           THEN /\ n = 3 /\ Len(call.sections) = 3 /\ inv.state = "none"
                /\ lastRun.args = call.started[3]
                /\ call.outcome = Some([ok |-> TRUE,
                                        text |-> call.sections[1] \o "\n\n" \o call.sections[2]
                                                 \o "\n\n" \o call.sections[3]])
           ELSE /\ Len(call.sections) = n - 1
                /\ inv.state # "none" /\ inv.args = call.started[n] /\ inv.seq = n
                /\ n > 1 => lastRun.args = call.started[n - 1]
        /\ Len(call.sections) > 0 =>
             call.sections[Len(call.sections)] =
                 IF lastRun.ok
                 THEN OutputSection(Len(call.sections), Flat(trimEnd(lastRun.exec.stdout)))
                 ELSE FailureSection(Len(call.sections), lastRun.ran.message)
        /\ Len(FailureSections(call)) = Len(call.failures)
        /\ \A k \in 1..Len(call.failures) :
             FailureSections(call)[k].text
                = FailureSection(FailureSections(call)[k].k, call.failures[k])

\* A section, once pushed, is not changed, and sections are pushed one at a time.
AnrSectionsGrow ==
    (AnrCall /\ call'.pc # "idle") =>
        /\ Len(call'.sections) \in {Len(call.sections), Len(call.sections) + 1}
        /\ SubSeq(call'.sections, 1, Len(call.sections)) = call.sections
        /\ SubSeq(call'.started, 1, Len(call.started)) = call.started

\* C23: every check-anr-state call starts its three adb invocations in the
\* fixed order (ActivityManager dump, ls -l of the traces file, tail -n 200
\* of it), each only after the one before has completed and whether or not
\* it failed; the call ends in a successful response of exactly three
\* sections in that order, and a failed invocation's error message is the
\* text of its own section.
C23_AnrBestEffort ==
    /\ []AnrInOrder
    /\ [][AnrSectionsGrow]_vars

\* The first two invocations failed, the third printed the tail, and the
\* call has returned its three sections.
C23_Witness ==
    /\ AnrCall /\ CallDone /\ Succeeded(call)
    /\ Len(call.failures) = 2 /\ lastRun.ok /\ ~Blank(lastRun.exec.stdout)
    /\ call.sections[1] = FailureSection(1, call.failures[1])
    /\ call.sections[2] = FailureSection(2, call.failures[2])
    /\ call.sections[1] # call.sections[2]

(***************************************************************************)
(* Claims about get-current-activity, checked under SpecAdb.               *)
(***************************************************************************)

FocusCall == CallDone /\ call.tool = "get-current-activity"

\* The lines of a text that end at each of its newlines, and the rest.
RECURSIVE LinesOf(_)
LinesOf(t) ==
    LET breaks == {k \in 1..Len(t) : t[k] = "\n"} IN
    IF breaks = {} THEN <<t>>
    ELSE LET first == CHOOSE k \in breaks : \A j \in breaks : k <= j
         IN <<SubSeq(t, 1, first - 1)>> \o LinesOf(SubSeq(t, first + 1, Len(t)))

NamesFocus(line) == \E name \in {"mCurrentFocus", "mFocusedApp"} : Mentions(line, name)

\* The lines of the dumpsys output that name a focus, in their order, and
\* the first eight of them.
FocusLines == SelectSeq(LinesOf(lastRun.exec.stdout), NamesFocus)
FirstFocusLines == [k \in 1..(IF Len(FocusLines) < 8 THEN Len(FocusLines) ELSE 8) |-> FocusLines[k]]

\* Lines as one text, a newline between each two.
RECURSIVE Lined(_)
Lined(lines) ==
    IF Len(lines) = 1 THEN Flat(lines[1])
    ELSE Flat(lines[1]) \o "\n" \o Lined(Tail(lines))

\* t without the white space at its start, and without the white space at its end.
RECURSIVE Unindented(_)
Unindented(t) == IF t # <<>> /\ IsSpace(Head(t)) THEN Unindented(Tail(t)) ELSE t
RECURSIVE Unpadded(_)
Unpadded(t) == IF t # <<>> /\ IsSpace(t[Len(t)]) THEN Unpadded(SubSeq(t, 1, Len(t) - 1)) ELSE t

\* The returned lines: the first line without its indentation, the last
\* line without its trailing white space.
ReturnedFocusLines ==
    LET n == Len(FirstFocusLines) IN
    [k \in 1..n |-> LET line == FirstFocusLines[k]
                        a == IF k = 1 THEN Unindented(line) ELSE line
                    IN IF k = n THEN Unpadded(a) ELSE a]

\* The claim as it is stated: the returned lines are lines of the output.
C24_Original ==
    (FocusCall /\ lastRun.ok /\ FocusLines # <<>>) =>
        /\ Succeeded(call)
        /\ call.outcome[1].text = Lined(FirstFocusLines)

\* C24: get-current-activity returns the first eight lines of the dumpsys
\* output that contain 'mCurrentFocus' or 'mFocusedApp', fewer when there
\* are fewer, in their order and as they are in the output but for the
\* white space before the first returned line and after the last one, which
\* is removed; when no line matches it returns the placeholder, and when the
\* dumpsys invocation fails the tool fails with that failure.
C24_FocusLines ==
    FocusCall =>
        /\ call.started = <<<<"shell", "dumpsys", "window">>>>
        /\ IF ~lastRun.ok
           THEN call.outcome = Some([ok |-> FALSE, error |-> lastRun.ran.message])
           ELSE IF FocusLines = <<>>
           THEN call.outcome = Some([ok |-> TRUE,
                                     text |-> "No focus info found in dumpsys window."])
           ELSE /\ Len(ReturnedFocusLines) <= 8
                /\ call.outcome = Some([ok |-> TRUE, text |-> Lined(ReturnedFocusLines)])

\* The dump had ten focus lines and other lines among them: the first eight
\* are returned, the first without its indentation.
C24_Witness ==
    /\ FocusCall /\ Succeeded(call)
    /\ Len(FocusLines) = 10 /\ Len(LinesOf(lastRun.exec.stdout)) > 10
    /\ Len(ReturnedFocusLines) = 8
    /\ ReturnedFocusLines[1] = <<"mCurrentFocus", "=Window{1}", " ">>
    /\ ReturnedFocusLines[8] = <<" ", "mFocusedApp", "=Window{8}">>
    /\ call.outcome[1].text = Lined(ReturnedFocusLines)

(***************************************************************************)
(* Claims about estimate-text-length-difference, checked under             *)
(* SpecTextLength.                                                         *)
(***************************************************************************)

Magnitude(n) == IF n < 0 THEN -n ELSE n

\* C25: for every validated request the source length is at least 1 and the
\* percent change is defined, so that the verdict is never one of the
\* 'source length is 0' verdicts; the verdict is 'exceeds tolerance' exactly
\* when |translatedLength - sourceLength| * 100 > tolerancePercent *
\* sourceLength; and the direction is 'longer', 'shorter' or 'no change' by
\* the sign of translatedLength - sourceLength.
C25_VerdictByExactPercent ==
    estimate.called =>
        LET delta == estimate.translatedLength - estimate.sourceLength IN
        /\ estimate.sourceLength >= 1
        /\ IsSome(estimate.percentChange)
        /\ estimate.verdict \in {ExceedsTolerance, WithinTolerance}
        /\ estimate.verdict = ExceedsTolerance
             <=> Magnitude(delta) * 100 > estimate.params.tolerancePercent * estimate.sourceLength
        /\ estimate.direction = IF delta > 0 THEN "longer"
                                ELSE IF delta < 0 THEN "shorter" ELSE "no change"
====
